---- MODULE Spec2Model ----
(***************************************************************************)
(* Match statistics aggregation of the demo viewer server                  *)
(* (server/index.js): areSidesSwapped and calculateMatchStats.             *)
(*                                                                         *)
(* Replay query (positions handler), summary cache and statistics query of *)
(* the same server; frame rendering of the RoundVisualizer client and the  *)
(* round prefetcher of the MultiRoundVisualizer client.                    *)
(*                                                                         *)
(* Four specifications share the definitions of the fold:                  *)
(*   Spec       the forEach of calculateMatchStats, one callback           *)
(*              invocation per step, over all five event kinds;            *)
(*   SpecMatch  the same forEach over the round_end events of a long       *)
(*              match (regulation halves and the side swap);               *)
(*   SpecSwap   areSidesSwapped applied to a round number;                 *)
(*   SpecRun    calculateMatchStats called as a whole, repeatedly, on one  *)
(*              array that it sorts in place.                              *)
(* The other specifications:                                               *)
(*   SpecReplay   positions queries with any tick range and interval;      *)
(*   SpecStats    the statistics query on readable and unreadable demos;   *)
(*   SpecGrenade  positions queries on recordings of throws and effects;   *)
(*   SpecBlind    positions queries on recordings of player_blind events;  *)
(*   SpecCache    list queries, uploads and deletions over the cache;      *)
(*   SpecBomb     a round loaded from the positions query and scrubbed;    *)
(*   SpecRender   two loaded snapshots played and scrubbed;                *)
(*   SpecGhost    the runs of the prefetch effect and their requests;      *)
(*   SpecRounds   the forEach over round_freeze_end and round_end events   *)
(*                of any reason;                                           *)
(*   SpecSampled  positions queries of interval 1 and 2;                   *)
(*   SpecTickLoop, SpecTickLoopFair  the tick loop of the positions        *)
(*                handler, one iteration per step;                         *)
(*   SpecPlayback, SpecPlaybackFair  rounds of any number of samples       *)
(*                loaded, played, scrubbed and animated.                   *)
(***************************************************************************)
EXTENDS Integers, Sequences, FiniteSets, TLC

VARIABLES
    players,             \* the players map, in insertion order (Object.values order)
    teams,               \* teams[2].score and teams[3].score
    validRounds,
    rounds,              \* round history
    lastRoundStartTick,
    cur,                 \* the event the forEach callback was last invoked with
    i,                   \* number of events the forEach has visited
    pc,                  \* "forEach" | "done" | "parse" | "swap" | "idle"
    result,              \* value returned by the last completed call
    events,              \* the array handed to calculateMatchStats (sorted in place)
    input,               \* the array as parseEvents delivered it
    prevResult,          \* value returned by the call before the last one
    runs,                \* number of completed calls on the array
    roundNumber,         \* argument of the last areSidesSwapped call
    swapped,             \* its return value
    demo,                \* the recording stored under getDemoPath(filename)
    req,                 \* the query of the last request handled
    res,                 \* the response the handler sent
    calls,               \* the decoder calls the handler made, in order
    files,               \* the demo files on disk: path -> size and content
    demoSummaryCache,    \* path -> { size, summary }
    ticks,               \* RoundVisualizer: the sampled ticks loaded, ascending
    positions,           \* RoundVisualizer: tick -> player snapshots
    bombEvents,          \* RoundVisualizer: the objective events loaded
    playbackTime,        \* playbackTimeRef.current, in 1/LerpDen of a tick interval
    isPlaying,
    frame,               \* what the last render() drew
    loading,             \* RoundVisualizer: the round's data has not arrived yet
    roundDataCache,      \* MultiRoundVisualizer: round -> loaded data
    progress,            \* { current, total }
    loadingRounds,
    effects,             \* the runs of the prefetch effect, each with its closure
    requests             \* getPositions requests in flight

vars == <<players, teams, validRounds, rounds, lastRoundStartTick, cur, i, pc,
          result, events, input, prevResult, runs, roundNumber, swapped,
          demo, req, res, calls, files, demoSummaryCache,
          ticks, positions, bombEvents, playbackTime, isPlaying, frame, loading,
          roundDataCache, progress, loadingRounds, effects, requests>>

foldVars == <<players, teams, validRounds, rounds, lastRoundStartTick>>
runVars == <<events, input, prevResult, runs>>
swapVars == <<roundNumber, swapped>>
serverVars == <<demo, req, res, calls>>
cacheVars == <<files, demoSummaryCache>>
renderVars == <<ticks, positions, bombEvents, playbackTime, isPlaying, frame, loading>>
ghostVars == <<roundDataCache, progress, loadingRounds, effects, requests>>
restVars == <<serverVars, cacheVars, renderVars, ghostVars>>
statsVars == <<foldVars, cur, i, pc, result, runVars, swapVars>>

----------------------------------------------------------------------------
(* Bounds of the explored inputs *)

MaxEvents == 3          \* events visited by one forEach in Spec
MaxTick == 1            \* ticks range over 0..MaxTick
MaxRounds == 14         \* round_end events visited in SpecMatch
MaxRoundNumber == 120   \* arguments of areSidesSwapped in SpecSwap
MaxArrayLen == 3        \* length of the array in SpecRun
MaxRuns == 2            \* calls on the same array in SpecRun

----------------------------------------------------------------------------
(* Values *)

NoId == ""               \* a missing / empty steamid (falsy)
NoName == ""             \* a missing / empty name (falsy)
SteamIds == {"p1", "p2"}
Names == {"n1"}
Null == [type |-> "null"]   \* no value yet
NullTeam == 0            \* team: null / startingTeam: null
T == 2
CT == 3

\* round_end.winner as the parser may deliver it: the strings 'T', 'CT' and
\* '2', '3', the numbers 2, 3 and 1, and null.
WinnerValues == {"'T'", "'CT'", "2", "3", "'2'", "'3'", "1", "null"}
Reasons == {"t_killed", "game_start"}
Ticks == 0 .. MaxTick
DmgValues == {1, 2}      \* dmg_health values

NoEvent == [event_name |-> "none", tick |-> 0]

PlayerTeamEvents(ids, names, teamVals, tickSet) ==
    [event_name : {"player_team"}, tick : tickSet, user_steamid : ids,
     user_name : names, team : teamVals]

RoundFreezeEndEvents(tickSet) ==
    [event_name : {"round_freeze_end"}, tick : tickSet]

RoundEndEvents(winners, reasons, tickSet) ==
    [event_name : {"round_end"}, tick : tickSet, winner : winners, reason : reasons]

PlayerDeathEvents(attackers, users, assisters, tickSet) ==
    [event_name : {"player_death"}, tick : tickSet, attacker_steamid : attackers,
     user_steamid : users, assister_steamid : assisters, headshot : BOOLEAN]

PlayerHurtEvents(attackers, users, dmgs, tickSet) ==
    [event_name : {"player_hurt"}, tick : tickSet, attacker_steamid : attackers,
     user_steamid : users, dmg_health : dmgs]

----------------------------------------------------------------------------
(* areSidesSwapped *)

FloorDiv3(n) == n \div 3

\* Math.ceil(n / 3) for an integer n
CeilDiv3(n) == IF n % 3 = 0 THEN n \div 3 ELSE (n \div 3) + 1

areSidesSwapped(r) ==
    IF r <= 12 THEN FALSE
    ELSE IF r <= 24 THEN TRUE
    ELSE LET otRound == r - 24
             otHalf == CeilDiv3(otRound)
         IN otHalf % 2 = 0

----------------------------------------------------------------------------
(* calculateMatchStats: helpers *)

createPlayer(steamid, name) ==
    [steamid |-> steamid,
     name |-> IF name # NoName THEN name ELSE "Unknown",
     team |-> NullTeam,
     startingTeam |-> NullTeam,
     kills |-> 0, deaths |-> 0, assists |-> 0, headshots |-> 0, damage |-> 0]

HasPlayer(ps, steamid) == \E k \in 1..Len(ps) : ps[k].steamid = steamid
IndexOf(ps, steamid) == CHOOSE k \in 1..Len(ps) : ps[k].steamid = steamid

\* getPlayer's effect on the players map; the object it returns is the entry
\* of steamid, or null when steamid is falsy.
getPlayer(ps, steamid, name) ==
    IF steamid = NoId THEN ps
    ELSE LET ps1 == IF HasPlayer(ps, steamid) THEN ps
                    ELSE Append(ps, createPlayer(steamid, name))
         IN IF name # NoName
            THEN [ps1 EXCEPT ![IndexOf(ps1, steamid)].name = name]
            ELSE ps1

FoldState(ps, ts, vr, rs, lrst) ==
    [players |-> ps, teams |-> ts, validRounds |-> vr, rounds |-> rs,
     lastRoundStartTick |-> lrst]

InitialFoldState ==
    FoldState(<<>>, [t \in {T, CT} |-> 0], 0, <<>>, 0)

----------------------------------------------------------------------------
(* calculateMatchStats: the forEach callback, one operator per branch *)

\* overwrites startingTeam on every assignment
OnPlayerTeamLatest(s, e) ==
    IF e.user_steamid = NoId THEN s
    ELSE LET ps == getPlayer(s.players, e.user_steamid, e.user_name)
             k == IndexOf(ps, e.user_steamid)
         IN IF e.team = 2 \/ e.team = 3
            THEN [s EXCEPT !.players =
                     [ps EXCEPT ![k].startingTeam = e.team, ![k].team = e.team]]
            ELSE [s EXCEPT !.players = ps]

\* player_team branch
OnPlayerTeam(s, e) ==
    IF e.user_steamid = NoId THEN s
    ELSE LET ps == getPlayer(s.players, e.user_steamid, e.user_name)
             k == IndexOf(ps, e.user_steamid)
         IN IF e.team = 2 \/ e.team = 3
            THEN LET st == IF ps[k].startingTeam = NullTeam
                           THEN e.team ELSE ps[k].startingTeam
                 IN [s EXCEPT !.players =
                        [ps EXCEPT ![k].startingTeam = st, ![k].team = e.team]]
            ELSE [s EXCEPT !.players = ps]

\* round_freeze_end branch
OnRoundFreezeEnd(s, e) == [s EXCEPT !.lastRoundStartTick = e.tick]

\* winner normalisation: e.winner === 'T' || e.winner == 2, else
\* e.winner === 'CT' || e.winner == 3, else null (NullTeam)
WinnerTeam(w) ==
    IF w = "'T'" \/ w \in {"2", "'2'"} THEN 2
    ELSE IF w = "'CT'" \/ w \in {"3", "'3'"} THEN 3
    ELSE NullTeam

ScoreTeamUnswapped(swp, winnerTeam) == winnerTeam

\* the team whose score a round won by side winnerTeam is credited to
ScoreTeam(swp, winnerTeam) ==
    IF swp THEN (IF winnerTeam = 2 THEN 3 ELSE 2) ELSE winnerTeam

RoundRecordZeroBased(n, winnerTeam, e, startTick) ==
    [round |-> n - 1, winner |-> winnerTeam, reason |-> e.reason, tick |-> e.tick,
     startTick |-> startTick, endTick |-> e.tick]

RoundRecord(n, winnerTeam, e, startTick) ==
    [round |-> n, winner |-> winnerTeam, reason |-> e.reason, tick |-> e.tick,
     startTick |-> startTick, endTick |-> e.tick]

\* counts the round before looking at the winner
OnRoundEndCountFirst(s, e) ==
    LET winnerTeam == WinnerTeam(e.winner)
        n == s.validRounds + 1
    IN IF winnerTeam # NullTeam
       THEN [s EXCEPT !.validRounds = n,
                      !.teams[ScoreTeam(areSidesSwapped(n), winnerTeam)] = @ + 1,
                      !.rounds = Append(@, RoundRecord(n, winnerTeam, e,
                                                s.lastRoundStartTick))]
       ELSE [s EXCEPT !.validRounds = n]

\* round_end branch
OnRoundEnd(s, e) ==
    LET winnerTeam == WinnerTeam(e.winner)
    IN IF winnerTeam # NullTeam
       THEN LET n == s.validRounds + 1
                scoreTeam == ScoreTeam(areSidesSwapped(n), winnerTeam)
            IN [s EXCEPT !.validRounds = n,
                         !.teams[scoreTeam] = @ + 1,
                         !.rounds = Append(@, RoundRecord(n, winnerTeam, e,
                                                   s.lastRoundStartTick))]
       ELSE s

AddDeath(ps, id) ==
    IF id # NoId THEN [ps EXCEPT ![IndexOf(ps, id)].deaths = @ + 1] ELSE ps

AddKillAlways(ps, killer, victim, headshot) ==
    IF killer # NoId
    THEN LET k == IndexOf(ps, killer)
         IN [ps EXCEPT ![k].kills = @ + 1,
                       ![k].headshots = IF headshot THEN @ + 1 ELSE @]
    ELSE ps

\* killer && killer !== victim: both are entries of the same map, so they are
\* the same object exactly when their steamids are equal
AddKill(ps, killer, victim, headshot) ==
    IF killer # NoId /\ killer # victim
    THEN LET k == IndexOf(ps, killer)
         IN [ps EXCEPT ![k].kills = @ + 1,
                       ![k].headshots = IF headshot THEN @ + 1 ELSE @]
    ELSE ps

AddAssist(ps, id) ==
    IF id # NoId THEN [ps EXCEPT ![IndexOf(ps, id)].assists = @ + 1] ELSE ps

\* player_death branch (the explored events carry no *_name fields)
OnPlayerDeath(s, e) ==
    LET ps1 == getPlayer(s.players, e.attacker_steamid, NoName)
        ps2 == getPlayer(ps1, e.user_steamid, NoName)
        ps3 == getPlayer(ps2, e.assister_steamid, NoName)
        ps4 == AddDeath(ps3, e.user_steamid)
        ps5 == AddKill(ps4, e.attacker_steamid, e.user_steamid, e.headshot)
        ps6 == AddAssist(ps5, e.assister_steamid)
    IN [s EXCEPT !.players = ps6]

NeverSameTeam(a, v) == FALSE

SameTeamOrUnknown(a, v) == a.team = v.team

\* attacker.team && victim.team && attacker.team === victim.team
SameTeam(a, v) == a.team # NullTeam /\ v.team # NullTeam /\ a.team = v.team

\* player_hurt branch
OnPlayerHurt(s, e) ==
    LET ps1 == getPlayer(s.players, e.attacker_steamid, NoName)
        ps2 == getPlayer(ps1, e.user_steamid, NoName)
    IN IF e.attacker_steamid # NoId /\ e.user_steamid # NoId
          /\ e.attacker_steamid # e.user_steamid
       THEN LET a == IndexOf(ps2, e.attacker_steamid)
                v == IndexOf(ps2, e.user_steamid)
            IN IF ~SameTeam(ps2[a], ps2[v])
               THEN [s EXCEPT !.players = [ps2 EXCEPT ![a].damage = @ + e.dmg_health]]
               ELSE [s EXCEPT !.players = ps2]
       ELSE [s EXCEPT !.players = ps2]

\* the callback of events.forEach
ProcessEvent(s, e) ==
    IF e.event_name = "player_team" THEN OnPlayerTeam(s, e)
    ELSE IF e.event_name = "round_freeze_end" THEN OnRoundFreezeEnd(s, e)
    ELSE IF e.event_name = "round_end" THEN OnRoundEnd(s, e)
    ELSE IF e.event_name = "player_death" THEN OnPlayerDeath(s, e)
    ELSE IF e.event_name = "player_hurt" THEN OnPlayerHurt(s, e)
    ELSE s

----------------------------------------------------------------------------
(* calculateMatchStats: derived stats and the returned object *)

\* (num / den).toFixed(1): a string, the quotient rounded to one decimal,
\* represented by the number of tenths it shows; a division by zero gives
\* the string "NaN" or "Infinity".
toFixed1(num, den) ==
    IF den = 0
    THEN [type |-> "string", tenths |-> 0,
          special |-> IF num = 0 THEN "NaN" ELSE "Infinity"]
    ELSE [type |-> "string", tenths |-> (20 * num + den) \div (2 * den),
          special |-> ""]

\* the number 0
NumberZero == [type |-> "number", tenths |-> 0, special |-> ""]

AdrUnguarded(damage, vr) == toFixed1(damage, vr)

\* validRounds > 0 ? (p.damage / validRounds).toFixed(1) : 0
Adr(damage, vr) == IF vr > 0 THEN toFixed1(damage, vr) ELSE NumberZero

KeepPlayer(p) == p.startingTeam = 2 \/ p.startingTeam = 3

WithAdr(p, vr) ==
    [steamid |-> p.steamid, name |-> p.name, team |-> p.team,
     startingTeam |-> p.startingTeam, kills |-> p.kills, deaths |-> p.deaths,
     assists |-> p.assists, headshots |-> p.headshots, damage |-> p.damage,
     adr |-> Adr(p.damage, vr)]

PlayerList(ps, vr) ==
    LET kept == SelectSeq(ps, KeepPlayer)
    IN [k \in 1..Len(kept) |-> WithAdr(kept[k], vr)]

ReturnValue(s) ==
    [score |-> [t |-> s.teams[2], ct |-> s.teams[3]],
     totalRounds |-> s.validRounds,
     rounds |-> s.rounds,
     players |-> PlayerList(s.players, s.validRounds)]

----------------------------------------------------------------------------
(* calculateMatchStats: the sort and the whole call *)

TickSorted(evs) == \A k \in 1..(Len(evs) - 1) : evs[k].tick <= evs[k + 1].tick

\* puts e in front of the elements of equal tick (not stable)
RECURSIVE InsertBeforeEqualTick(_, _)
InsertBeforeEqualTick(sorted, e) ==
    IF sorted = <<>> THEN <<e>>
    ELSE IF sorted[Len(sorted)].tick < e.tick THEN Append(sorted, e)
    ELSE Append(InsertBeforeEqualTick(SubSeq(sorted, 1, Len(sorted) - 1), e),
                sorted[Len(sorted)])

\* insert e behind every element whose tick is not greater (the sort is stable)
RECURSIVE InsertByTick(_, _)
InsertByTick(sorted, e) ==
    IF sorted = <<>> THEN <<e>>
    ELSE IF sorted[Len(sorted)].tick <= e.tick THEN Append(sorted, e)
    ELSE Append(InsertByTick(SubSeq(sorted, 1, Len(sorted) - 1), e),
                sorted[Len(sorted)])

\* events.sort((a, b) => a.tick - b.tick)
RECURSIVE SortByTick(_)
SortByTick(evs) ==
    IF evs = <<>> THEN <<>>
    ELSE InsertByTick(SortByTick(SubSeq(evs, 1, Len(evs) - 1)), evs[Len(evs)])

\* events.forEach(callback) from the initial local state
RECURSIVE FoldEvents(_, _)
FoldEvents(s, evs) ==
    IF evs = <<>> THEN s
    ELSE FoldEvents(ProcessEvent(s, Head(evs)), Tail(evs))

----------------------------------------------------------------------------
(* State *)

State == FoldState(players, teams, validRounds, rounds, lastRoundStartTick)

SetState(s) ==
    /\ players' = s.players
    /\ teams' = s.teams
    /\ validRounds' = s.validRounds
    /\ rounds' = s.rounds
    /\ lastRoundStartTick' = s.lastRoundStartTick

\* the locals of calculateMatchStats when the forEach starts
InitFold(p) ==
    /\ players = <<>>
    /\ teams = [t \in {T, CT} |-> 0]
    /\ validRounds = 0
    /\ rounds = <<>>
    /\ lastRoundStartTick = 0
    /\ cur = NoEvent
    /\ i = 0
    /\ pc = p
    /\ result = Null

InitRun ==
    /\ events = <<>>
    /\ input = <<>>
    /\ prevResult = Null
    /\ runs = 0

InitSwap ==
    /\ roundNumber = 0
    /\ swapped = FALSE

\* no recording, no request handled yet
InitServer ==
    /\ demo = [exists |-> FALSE, bad |-> "none", message |-> "", lastTick |-> 0,
               events |-> <<>>]
    /\ req = Null
    /\ res = Null
    /\ calls = <<>>

\* const demoSummaryCache = new Map(), and an empty demos directory
InitCache ==
    /\ files = <<>>
    /\ demoSummaryCache = <<>>

\* the useState / useRef initial values of RoundVisualizer
InitRender ==
    /\ ticks = <<>>
    /\ positions = <<>>
    /\ bombEvents = <<>>
    /\ playbackTime = 0
    /\ isPlaying = FALSE
    /\ frame = Null
    /\ loading = TRUE

\* the useState initial values of MultiRoundVisualizer
InitGhost ==
    /\ roundDataCache = <<>>
    /\ progress = [current |-> 0, total |-> 0]
    /\ loadingRounds = {}
    /\ effects = <<>>
    /\ requests = {}

InitRest == InitServer /\ InitCache /\ InitRender /\ InitGhost

----------------------------------------------------------------------------
(* Spec: the forEach of calculateMatchStats, one callback invocation per   *)
(* step.  The array was sorted before the forEach starts, so the events    *)
(* are visited in non-decreasing tick order.                               *)

AnyIds == SteamIds \cup {NoId}

Visit(e) ==
    /\ pc = "forEach"
    /\ e.tick >= cur.tick
    /\ SetState(ProcessEvent(State, e))
    /\ cur' = e
    /\ i' = i + 1
    /\ UNCHANGED <<pc, result, runVars, swapVars, restVars>>

VisitPlayerTeam ==
    /\ i < MaxEvents
    /\ \E e \in PlayerTeamEvents(AnyIds, {NoName}, {1, 2, 3}, Ticks) :
          Visit(e)

VisitRoundFreezeEnd ==
    /\ i < MaxEvents
    /\ \E e \in RoundFreezeEndEvents(Ticks) : Visit(e)

VisitRoundEnd ==
    /\ i < MaxEvents
    /\ \E e \in RoundEndEvents(WinnerValues, {"t_killed"}, Ticks) : Visit(e)

\* every killer/victim pair without an assister, and a death with one
DeathEvents ==
    PlayerDeathEvents(AnyIds, AnyIds, {NoId}, Ticks)
    \cup PlayerDeathEvents({"p1"}, {"p1"}, {"p2"}, Ticks)

VisitPlayerDeath ==
    /\ i < MaxEvents
    /\ \E e \in DeathEvents : Visit(e)

VisitPlayerHurt ==
    /\ i < MaxEvents
    /\ \E e \in PlayerHurtEvents(AnyIds, AnyIds, DmgValues, Ticks) : Visit(e)

\* the end of the array: derived stats and return
Return ==
    /\ pc = "forEach"
    /\ result' = ReturnValue(State)
    /\ pc' = "done"
    /\ UNCHANGED <<foldVars, cur, i, runVars, swapVars, restVars>>

Init == InitFold("forEach") /\ InitRun /\ InitSwap /\ InitRest

Next ==
    \/ VisitPlayerTeam
    \/ VisitRoundFreezeEnd
    \/ VisitRoundEnd
    \/ VisitPlayerDeath
    \/ VisitPlayerHurt
    \/ Return

Spec == Init /\ [][Next]_vars

----------------------------------------------------------------------------
(* SpecMatch: the forEach over the round_end events of a long match; the   *)
(* events of the round after k valid rounds carry tick k.                  *)

MatchWinners == {"'T'", "'CT'", "2", "3", "null"}

MatchRoundEnd ==
    /\ i < MaxRounds
    /\ \E e \in RoundEndEvents(MatchWinners, {"t_killed"}, {validRounds}) : Visit(e)

MatchReturn == Return

NextMatch == MatchRoundEnd \/ MatchReturn

SpecMatch == Init /\ [][NextMatch]_vars

----------------------------------------------------------------------------
(* SpecSwap: areSidesSwapped applied to a round number *)

CallAreSidesSwapped ==
    /\ pc = "swap"
    /\ \E r \in 1..MaxRoundNumber :
          /\ roundNumber' = r
          /\ swapped' = areSidesSwapped(r)
    /\ UNCHANGED <<foldVars, cur, i, pc, result, runVars, restVars>>

InitSwapSpec == InitFold("swap") /\ InitRun /\ InitSwap /\ InitRest

NextSwap == CallAreSidesSwapped

SpecSwap == InitSwapSpec /\ [][NextSwap]_vars

----------------------------------------------------------------------------
(* SpecRun: parseEvents delivers an array, calculateMatchStats is called   *)
(* on it as a whole, and called again on the same array.                   *)

RunEvents ==
    PlayerTeamEvents({"p1"}, Names \cup {NoName}, {2, 3}, Ticks)
    \cup PlayerTeamEvents({"p2"}, {NoName}, {2, 3}, Ticks)
    \cup RoundFreezeEndEvents(Ticks)
    \cup RoundEndEvents({"'T'", "3"}, {"t_killed"}, Ticks)
    \cup PlayerHurtEvents({"p1"}, {"p2"}, {1}, Ticks)

ParseEvents ==
    /\ pc = "parse"
    /\ Len(events) < MaxArrayLen
    /\ \E e \in RunEvents :
          /\ events' = Append(events, e)
          /\ input' = Append(input, e)
    /\ UNCHANGED <<foldVars, cur, i, pc, result, prevResult, runs, swapVars, restVars>>

CalculateMatchStats ==
    /\ pc \in {"parse", "done"}
    /\ runs < MaxRuns
    /\ LET sorted == SortByTick(events)
           s == FoldEvents(InitialFoldState, sorted)
       IN /\ events' = sorted
          /\ SetState(s)
          /\ cur' = IF sorted = <<>> THEN NoEvent ELSE sorted[Len(sorted)]
          /\ i' = Len(sorted)
          /\ result' = ReturnValue(s)
    /\ prevResult' = result
    /\ runs' = runs + 1
    /\ pc' = "done"
    /\ UNCHANGED <<input, swapVars, restVars>>

InitRunSpec == InitFold("parse") /\ InitRun /\ InitSwap /\ InitRest

NextRun == ParseEvents \/ CalculateMatchStats

SpecRun == InitRunSpec /\ [][NextRun]_vars

----------------------------------------------------------------------------
(* Properties *)

Visited == i' = i + 1        \* this step is one invocation of the callback

\* the side a winner value denotes: 'T' or 2 (anything == 2), 'CT' or 3
SideOfWinner(w) ==
    CASE w \in {"'T'", "2", "'2'"} -> 2
      [] w \in {"'CT'", "3", "'3'"} -> 3
      [] OTHER -> NullTeam

\* C1: the two team scores always add up to the number of valid rounds, in
\* the running fold and in the returned object.
C1_ScoreSum ==
    /\ teams[2] + teams[3] = validRounds
    /\ pc = "done" => result.score.t + result.score.ct = result.totalRounds

C1_Witness ==
    /\ pc = "done"
    /\ result.totalRounds >= 2
    /\ result.score.t >= 1
    /\ result.score.ct >= 1
    /\ i > result.totalRounds

\* C2: the round history carries the numbers 1..validRounds in order; a
\* number is assigned only on a round_end whose winner denotes a side, and a
\* round_end with any other winner changes neither counter, scores nor history.
C2_Numbered ==
    /\ Len(rounds) = validRounds
    /\ \A k \in 1..Len(rounds) : rounds[k].round = k
    /\ pc = "done" =>
          /\ Len(result.rounds) = result.totalRounds
          /\ \A k \in 1..result.totalRounds : result.rounds[k].round = k

C2_Step ==
    Visited =>
       IF cur'.event_name = "round_end" /\ SideOfWinner(cur'.winner) # NullTeam
       THEN /\ validRounds' = validRounds + 1
            /\ Len(rounds') = Len(rounds) + 1
            /\ rounds'[Len(rounds')].round = validRounds + 1
            /\ SubSeq(rounds', 1, Len(rounds)) = rounds
       ELSE UNCHANGED <<validRounds, teams, rounds>>

C2_RoundNumbers == []C2_Numbered /\ [][C2_Step]_vars

C2_Witness ==
    /\ validRounds >= 3
    /\ i >= validRounds + 2
    /\ cur.event_name = "round_end"
    /\ SideOfWinner(cur.winner) = NullTeam

\* C3: areSidesSwapped is false for rounds 1..12, true for 13..24, and from
\* round 25 on true exactly when ceil((r - 24) / 3) is even, which is false
\* for 25-27, true for 28-30, with period 6.
SwappedExpected(r) ==
    IF r <= 12 THEN FALSE
    ELSE IF r <= 24 THEN TRUE
    ELSE \E k \in 1..r : /\ 3 * (k - 1) < r - 24
                         /\ r - 24 <= 3 * k
                         /\ k % 2 = 0

C3_SwapTable ==
    roundNumber >= 1 =>
       /\ swapped = SwappedExpected(roundNumber)
       /\ roundNumber >= 25 => (swapped <=> ((roundNumber - 25) % 6) \in {3, 4, 5})
       /\ roundNumber \in 25..27 => ~swapped
       /\ roundNumber \in 28..30 => swapped
       /\ roundNumber \in 31..33 => ~swapped

C3_Witness == roundNumber = 30 /\ swapped

\* C4: the k-th valid round's point goes to its winning side when
\* areSidesSwapped(k) is false and to the other side when it is true; the
\* round record keeps the raw winning side.
CreditedTo(side) ==
    {k \in 1..Len(rounds) :
        \/ rounds[k].winner = side /\ ~areSidesSwapped(k)
        \/ rounds[k].winner \in {2, 3} \ {side} /\ areSidesSwapped(k)}

C4_SideAttribution ==
    /\ teams[2] = Cardinality(CreditedTo(2))
    /\ teams[3] = Cardinality(CreditedTo(3))
    /\ \A k \in 1..Len(rounds) : rounds[k].winner \in {2, 3}
    /\ (cur.event_name = "round_end" /\ SideOfWinner(cur.winner) # NullTeam) =>
          rounds[Len(rounds)].winner = SideOfWinner(cur.winner)
    /\ pc = "done" =>
          /\ result.score.t = Cardinality(CreditedTo(2))
          /\ result.score.ct = Cardinality(CreditedTo(3))

C4_Witness ==
    /\ pc = "done"
    /\ Len(rounds) = 13
    /\ \A k \in 1..13 : rounds[k].winner = 2
    /\ result.score.t = 12
    /\ result.score.ct = 1

----------------------------------------------------------------------------
(* Properties of the player counters *)

\* the entry of id in the players map; all counters 0 and no side when absent
Entry(ps, id) ==
    IF HasPlayer(ps, id) THEN ps[IndexOf(ps, id)]
    ELSE [steamid |-> id, name |-> "", team |-> 0, startingTeam |-> 0,
          kills |-> 0, deaths |-> 0, assists |-> 0, headshots |-> 0, damage |-> 0]

Field(ps, id, f) == Entry(ps, id)[f]
KnownSide(t) == t = 2 \/ t = 3

\* C5: a player_hurt event adds nothing to the attacker's damage when attacker
\* and victim have the same known side at that point, nor when they are the
\* same player.
C5_Step ==
    (Visited /\ cur'.event_name = "player_hurt") =>
       LET a == cur'.attacker_steamid
           v == cur'.user_steamid
       IN (\/ a = v
           \/ /\ KnownSide(Field(players, a, "team"))
              /\ Field(players, a, "team") = Field(players, v, "team"))
          => Field(players', a, "damage") = Field(players, a, "damage")

C5_NoFriendlyDamage == [][C5_Step]_vars

C5_Witness ==
    /\ cur.event_name = "player_hurt"
    /\ cur.attacker_steamid \in SteamIds
    /\ cur.user_steamid \in SteamIds
    /\ cur.attacker_steamid # cur.user_steamid
    /\ KnownSide(Field(players, cur.attacker_steamid, "team"))
    /\ Field(players, cur.attacker_steamid, "team")
          = Field(players, cur.user_steamid, "team")
    /\ Field(players, cur.attacker_steamid, "damage") = 0

\* the amount a visited event adds to player p's damage when damage counts
\* exactly on hurt events satisfying cond(attacker side, victim side)
DamageDue(p, e, ps, cond(_, _)) ==
    IF /\ e.event_name = "player_hurt"
       /\ e.attacker_steamid = p
       /\ e.user_steamid \in SteamIds
       /\ e.user_steamid # p
       /\ cond(Field(ps, p, "team"), Field(ps, e.user_steamid, "team"))
    THEN e.dmg_health
    ELSE 0

DifferentKnownSides(ta, tv) == KnownSide(ta) /\ KnownSide(tv) /\ ta # tv
NotSameKnownSide(ta, tv) == ~(KnownSide(ta) /\ KnownSide(tv) /\ ta = tv)

\* C6 as stated: a player's damage grows by dmg_health exactly on the hurt
\* events whose attacker and victim have different sides that are both known.
C6_Step_Original ==
    Visited =>
       \A p \in SteamIds :
          Field(players', p, "damage") =
             Field(players, p, "damage")
                + DamageDue(p, cur', players, DifferentKnownSides)

C6_Step ==
    Visited =>
       \A p \in SteamIds :
          Field(players', p, "damage") =
             Field(players, p, "damage")
                + DamageDue(p, cur', players, NotSameKnownSide)

C7_HeadshotsLeKills ==
    \A k \in 1..Len(players) : players[k].headshots <= players[k].kills

C7_Step ==
    Visited =>
       \A p \in SteamIds :
          LET death == cur'.event_name = "player_death"
              kill == death /\ cur'.attacker_steamid = p /\ cur'.user_steamid # p
              old == Entry(players, p)
              new == Entry(players', p)
          IN /\ new.deaths = old.deaths
                   + (IF death /\ cur'.user_steamid = p THEN 1 ELSE 0)
             /\ new.kills = old.kills + (IF kill THEN 1 ELSE 0)
             /\ new.headshots = old.headshots
                   + (IF kill /\ cur'.headshot THEN 1 ELSE 0)

C7_KillCredit == []C7_HeadshotsLeKills /\ [][C7_Step]_vars

C7_Witness ==
    /\ cur.event_name = "player_death"
    /\ cur.attacker_steamid = "p1"
    /\ cur.user_steamid = "p1"
    /\ cur.headshot
    /\ Field(players, "p1", "deaths") = 2
    /\ Field(players, "p1", "kills") = 1
    /\ Field(players, "p1", "headshots") = 0

\* C8: startingTeam is set by the first player_team event assigning the
\* player side 2 or 3 and never changes afterwards; team follows the latest
\* such assignment; other assignments and other events change neither; the
\* returned list holds exactly the players whose startingTeam is 2 or 3.
C8_Step ==
    Visited =>
       \A p \in SteamIds :
          LET assign == /\ cur'.event_name = "player_team"
                        /\ cur'.user_steamid = p
                        /\ cur'.team \in {2, 3}
              st == Field(players, p, "startingTeam")
          IN /\ Field(players', p, "team") =
                   IF assign THEN cur'.team ELSE Field(players, p, "team")
             /\ Field(players', p, "startingTeam") =
                   IF assign /\ ~KnownSide(st) THEN cur'.team ELSE st

C8_Returned ==
    pc = "done" =>
       /\ \A p \in SteamIds :
             (\E k \in 1..Len(result.players) : result.players[k].steamid = p)
                <=> KnownSide(Field(players, p, "startingTeam"))
       /\ \A k \in 1..Len(result.players) :
             /\ KnownSide(result.players[k].startingTeam)
             /\ result.players[k].startingTeam
                   = Field(players, result.players[k].steamid, "startingTeam")

C8_StartingTeam == []C8_Returned /\ [][C8_Step]_vars

C8_Witness ==
    /\ pc = "done"
    /\ Len(players) = 2
    /\ Len(result.players) = 1
    /\ result.players[1].startingTeam = 2
    /\ result.players[1].team = 3
    /\ cur.event_name = "player_team"
    /\ cur.team = 1

\* C9: with no valid round every returned player's adr is the number 0,
\* whatever damage the player accumulated.
C9_AdrZero ==
    (pc = "done" /\ result.totalRounds = 0) =>
       \A k \in 1..Len(result.players) : result.players[k].adr = NumberZero

C9_Witness ==
    /\ pc = "done"
    /\ result.totalRounds = 0
    /\ \E k \in 1..Len(result.players) : result.players[k].damage > 0

----------------------------------------------------------------------------
(* Properties of repeated calls *)

\* C10: a second call of calculateMatchStats on the same tick-sorted array
\* returns the same object as the first call.
C10_Idempotent ==
    (runs >= 2 /\ TickSorted(input)) => result = prevResult

C10_Witness ==
    /\ runs = 2
    /\ TickSorted(input)
    /\ Len(input) = 3
    /\ input[1].tick = input[2].tick
    /\ input[1].event_name = "player_team"
    /\ input[2].event_name = "player_hurt"
    /\ result = prevResult
    /\ result.totalRounds = 1
    /\ Len(result.players) = 1
    /\ result.players[1].damage = 1


(***************************************************************************)
(* The recording and the decoder (parseHeader, parseEvents, parseTicks of  *)
(* @laihoe/demoparser2), as the two query handlers use them.               *)
(*                                                                         *)
(* A recording holds its events in recorded order and one sample of every  *)
(* player of Roster at every tick 0..lastTick.  Strings that the code      *)
(* searches with includes() are sequences of characters.                   *)
(***************************************************************************)
MaxDemoEvents == 3      \* events in a recording
MaxLastTick == 3        \* a recording is sampled at ticks 0..lastTick <= MaxLastTick

Undefined == -1         \* a field that is absent (undefined) where a number >= 0 may stand
TickRate == 64

Roster == <<"p1", "p2">>

smokegrenade == <<"s","m","o","k","e","g","r","e","n","a","d","e">>
hegrenade == <<"h","e","g","r","e","n","a","d","e">>
flashbang == <<"f","l","a","s","h","b","a","n","g">>
molotov == <<"m","o","l","o","t","o","v">>
incgrenade == <<"i","n","c","g","r","e","n","a","d","e">>
decoy == <<"d","e","c","o","y">>

\* String.prototype.includes
includes(str, sub) ==
    \E k \in 0..(Len(str) - Len(sub)) : SubSeq(str, k + 1, k + Len(sub)) = sub

\* String.prototype.startsWith('bomb_') on the event names of the recording
BombEventNames ==
    {"bomb_pickup", "bomb_dropped", "bomb_planted", "bomb_defused", "bomb_exploded"}
DetonateEventNames ==
    {"smokegrenade_detonate", "hegrenade_detonate", "flashbang_detonate",
     "inferno_startburn"}

GrenadeThrownEvents(ids, weapons, tickSet) ==
    [event_name : {"grenade_thrown"}, tick : tickSet, user_steamid : ids,
     weapon : weapons]
DetonateEvents(names, ids, tickSet) ==
    [event_name : names, tick : tickSet, user_steamid : ids]
PlayerBlindEvents(ids, durations, tickSet) ==
    [event_name : {"player_blind"}, tick : tickSet, user_steamid : ids,
     blind_duration : durations]
BombEvents(names, ids, tickSet) ==
    [event_name : names, tick : tickSet, user_steamid : ids]
WeaponFireEvents(ids, tickSet) ==
    [event_name : {"weapon_fire"}, tick : tickSet, user_steamid : ids]

RosterIndex(steamid) == CHOOSE k \in 1..Len(Roster) : Roster[k] = steamid

\* the row the recording holds for a player at a tick
SampleOf(steamid, tick) ==
    [tick |-> tick, steamid |-> steamid,
     X |-> 100 * RosterIndex(steamid) + tick, Y |-> 10 + tick, Z |-> 1,
     yaw |-> 0, team_num |-> RosterIndex(steamid) + 1, health |-> 100]

\* parseEvents(filePath, names): the recording's events of these names, in order
parseEvents(d, names) ==
    LET wanted(e) == e.event_name \in names
    IN  SelectSeq(d.events, wanted)

\* parseTicks(filePath, fields, ticks): one row per requested tick the
\* recording holds and per player
parseTicks(d, tickList) ==
    LET held(t) == t \in 0..d.lastTick
        got == SelectSeq(tickList, held)
        n == Len(Roster)
    IN  [k \in 1..(Len(got) * n) |->
            SampleOf(Roster[((k - 1) % n) + 1], got[((k - 1) \div n) + 1])]

\* Array.prototype.find on the rows of parseTicks: the first row of this
\* player at this tick, Null when there is none
FindPos(rows, tick, steamid) ==
    LET hits == {k \in 1..Len(rows) :
                    rows[k].tick = tick /\ rows[k].steamid = steamid}
    IN  IF hits = {} THEN Null
        ELSE rows[CHOOSE k \in hits : \A h \in hits : k <= h]

(***************************************************************************)
(* app.get('/api/demos/:filename/positions').  A query value is the raw    *)
(* string of the URL: digits, with or without a sign, possibly followed by *)
(* other characters, or no leading number at all.                          *)
(***************************************************************************)
NaN == [nan |-> TRUE, v |-> 0]
Num(n) == [nan |-> FALSE, v |-> n]
\* raw query strings: "12", "12abc" and "abc" (or a missing parameter)
RawNumber(n) == [lead |-> TRUE, v |-> n, rest |-> ""]
RawNumberJunk(n) == [lead |-> TRUE, v |-> n, rest |-> "abc"]
RawText == [lead |-> FALSE, v |-> 0, rest |-> "abc"]
\* parseInt: the leading integer of the string, NaN when there is none
parseInt(raw) == IF raw.lead THEN Num(raw.v) ELSE NaN
isNaN(n) == n.nan

\* const step = parseInt(interval) || 1
StepOf(interval) ==
    LET n == parseInt(interval)
    IN  IF isNaN(n) \/ n.v = 0 THEN 1 ELSE n.v

\* for (let i = start; i <= end; i += step) ticks.push(i), for step > 0
TickList(start, end, step) ==
    IF start > end THEN <<>>
    ELSE [k \in 1..(((end - start) \div step) + 1) |-> start + (k - 1) * step]

InRange(e, start, end) == e.tick >= start /\ e.tick <= end

\* thrownEvents and bombEventsRaw: filtered, then sorted by tick (stable)
ThrownEvents(grenadeEventsRaw) ==
    LET thrown(e) == e.event_name = "grenade_thrown"
    IN  SortByTick(SelectSeq(grenadeEventsRaw, thrown))

BombEventsRaw(grenadeEventsRaw) ==
    LET bomb(e) == e.event_name \in BombEventNames
    IN  SortByTick(SelectSeq(grenadeEventsRaw, bomb))

\* bombEvents: planted and dropped events get the coordinates of their player
\* at their tick when the requested samples hold that row
AttachPosition(rows, e) ==
    IF e.event_name \in {"bomb_planted", "bomb_dropped"}
    THEN LET pPos == FindPos(rows, e.tick, e.user_steamid)
         IN  IF pPos # Null
             THEN [event_name |-> e.event_name, tick |-> e.tick,
                   user_steamid |-> e.user_steamid,
                   x |-> pPos.X, y |-> pPos.Y, z |-> pPos.Z]
             ELSE e
    ELSE e

BombEventsOf(rows, grenadeEventsRaw) ==
    LET raw == BombEventsRaw(grenadeEventsRaw)
    IN  [k \in 1..Len(raw) |-> AttachPosition(rows, raw[k])]

\* the type and weaponMatch of a grenade effect
GrenadeType(event_name) ==
    CASE event_name = "smokegrenade_detonate" ->
            [type |-> "smoke", weaponMatch |-> smokegrenade]
      [] event_name = "hegrenade_detonate" ->
            [type |-> "he", weaponMatch |-> hegrenade]
      [] event_name = "flashbang_detonate" ->
            [type |-> "flash", weaponMatch |-> flashbang]
      [] event_name = "inferno_startburn" ->
            [type |-> "fire", weaponMatch |-> molotov]
      [] OTHER -> [type |-> "unknown", weaponMatch |-> <<>>]

\* the predicate of the filter that selects the candidate throws of effect g
AnyWeaponQualifies(t, g) ==
    t.tick < g.tick /\ t.user_steamid = g.user_steamid

Qualifies(t, g) ==
    LET k == GrenadeType(g.event_name)
    IN  /\ t.tick < g.tick
        /\ t.user_steamid = g.user_steamid
        /\ \/ includes(t.weapon, k.weaponMatch)
           \/ (k.type = "fire" /\ includes(t.weapon, incgrenade))

\* thrownEvents.filter(...).pop(): the last candidate, Null when there is none
ThrowEventOf(thrownEvents, g) ==
    LET candidate(t) == Qualifies(t, g)
        found == SelectSeq(thrownEvents, candidate)
    IN  IF found = <<>> THEN Null ELSE found[Len(found)]

NumberValue(n) == [type |-> "number", v |-> n]

Grenade(rows, thrownEvents, g) ==
    LET throwEvent == ThrowEventOf(thrownEvents, g)
        pPos == IF throwEvent = Null THEN Null
                ELSE FindPos(rows, throwEvent.tick, throwEvent.user_steamid)
    IN  [type |-> GrenadeType(g.event_name).type,
         tick |-> g.tick,
         throwerSteamId |-> g.user_steamid,
         throwTick |-> IF throwEvent = Null THEN Null
                       ELSE NumberValue(throwEvent.tick),
         throwPos |-> IF pPos = Null THEN Null
                      ELSE [x |-> pPos.X, y |-> pPos.Y, z |-> pPos.Z]]

RelevantGrenades(rows, grenadeEventsRaw, start, end) ==
    LET effect(g) == /\ InRange(g, start, end)
                     /\ g.event_name \notin BombEventNames
                     /\ g.event_name # "grenade_thrown"
        effects_ == SelectSeq(grenadeEventsRaw, effect)
        thrownEvents == ThrownEvents(grenadeEventsRaw)
    IN  [k \in 1..Len(effects_) |-> Grenade(rows, thrownEvents, effects_[k])]

\* kills: the deaths of the range whose victim has a row at the death tick
Kills(rows, relevantDeaths) ==
    LET found(d) == FindPos(rows, d.tick, d.user_steamid) # Null
        kept == SelectSeq(relevantDeaths, found)
    IN  [k \in 1..Len(kept) |->
            LET victimPos == FindPos(rows, kept[k].tick, kept[k].user_steamid)
            IN  [tick |-> kept[k].tick, victimSteamId |-> kept[k].user_steamid,
                 x |-> victimPos.X, y |-> victimPos.Y, z |-> victimPos.Z]]

Shots(relevantShots) ==
    [k \in 1..Len(relevantShots) |->
        [tick |-> relevantShots[k].tick, steamid |-> relevantShots[k].user_steamid]]

Max(a, b) == IF a >= b THEN a ELSE b

\* blind.blind_duration || 0
OrZero(n) == IF n = Undefined THEN 0 ELSE n

\* the loop over relevantBlinds for one row.  A duration is held in 1/64 of
\* a second, so that duration * 64 is its length in ticks and a remaining
\* number of ticks is the remaining duration in 1/64 of a second.
RECURSIVE FlashDuration(_, _, _)
FlashDuration(blinds, pos, flashDuration) ==
    IF blinds = <<>> THEN flashDuration
    ELSE LET blind == Head(blinds)
             blindEndTick == blind.tick + OrZero(blind.blind_duration)
         IN  FlashDuration(
                 Tail(blinds), pos,
                 IF /\ blind.user_steamid = pos.steamid
                    /\ pos.tick >= blind.tick
                    /\ pos.tick < blindEndTick
                 THEN Max(flashDuration, blindEndTick - pos.tick)
                 ELSE flashDuration)

\* the object pushed for one row (name, armor, has_helmet, has_defuser,
\* active_weapon_name and inventory are copied like health)
Snapshot(relevantBlinds, pos) ==
    LET flashDuration == FlashDuration(relevantBlinds, pos, 0)
    IN  [steamid |-> pos.steamid, team |-> pos.team_num, yaw |-> pos.yaw,
         x |-> pos.X, y |-> pos.Y, z |-> pos.Z, health |-> pos.health,
         flash_duration |-> IF flashDuration > 0 THEN flashDuration ELSE Undefined]

\* grouped: tick -> the snapshots of that tick, in row order
Grouped(rows, relevantBlinds) ==
    [t \in {rows[k].tick : k \in 1..Len(rows)} |->
        LET atTick(pos) == pos.tick = t
            own == SelectSeq(rows, atTick)
        IN  [k \in 1..Len(own) |-> Snapshot(relevantBlinds, own[k])]]

Response(status, body, made) == [status |-> status, body |-> body, calls |-> made]

PositionsBody(d, start, end, step) ==
    LET rows == parseTicks(d, TickList(start, end, step))
        inRange(e) == InRange(e, start, end)
        relevantDeaths == SelectSeq(parseEvents(d, {"player_death"}), inRange)
        relevantShots == SelectSeq(parseEvents(d, {"weapon_fire"}), inRange)
        blindsInRange == SelectSeq(parseEvents(d, {"player_blind"}), inRange)
        grenadeEventsRaw ==
            parseEvents(d, DetonateEventNames \cup {"grenade_thrown"}
                               \cup BombEventNames)
    IN  [positions |-> Grouped(rows, blindsInRange),
         kills |-> Kills(rows, relevantDeaths),
         shots |-> Shots(relevantShots),
         grenades |-> RelevantGrenades(rows, grenadeEventsRaw, start, end),
         bombEvents |-> BombEventsOf(rows, grenadeEventsRaw)]

\* the whole handler: the response and the decoder calls made on the way.
\* With a negative step and start <= end the loop that builds the tick list
\* never ends, and no response is sent.
Positions(d, q) ==
    LET start == parseInt(q.startTick)
        end == parseInt(q.endTick)
        step == StepOf(q.interval)
    IN  IF ~d.exists
        THEN Response(404, [error |-> "Demo file not found"], <<>>)
        ELSE IF isNaN(start) \/ isNaN(end)
        THEN Response(400, [error |-> "Invalid tick range"], <<>>)
        ELSE IF step < 0 /\ start.v <= end.v
        THEN Response(0, [error |-> "no response"], <<>>)
        ELSE IF d.bad = "parseTicks"
        THEN Response(500, [error |-> "Failed to parse positions",
                            details |-> d.message], <<"parseTicks">>)
        ELSE IF d.bad = "parseEvents"
        THEN Response(500, [error |-> "Failed to parse positions",
                            details |-> d.message],
                      <<"parseTicks", "parseEvents">>)
        ELSE Response(200, PositionsBody(d, start.v, end.v, step),
                      <<"parseTicks", "parseEvents", "parseEvents",
                        "parseEvents", "parseEvents">>)

Query(startTick, endTick, interval) ==
    [startTick |-> startTick, endTick |-> endTick, interval |-> interval]

\* one request to the positions route
GetPositions(q) ==
    LET r == Positions(demo, q)
    IN  /\ req' = q
        /\ res' = [status |-> r.status, body |-> r.body]
        /\ calls' = r.calls
        /\ UNCHANGED <<demo, statsVars, cacheVars, renderVars, ghostVars>>

\* all sequences of at most n elements of S
SeqsUpTo(S, n) == UNION {[1..k -> S] : k \in 0..n}

\* a demo file is stored under the name (app.post('/api/upload')); what the
\* decoder will make of it is a property of the file
UploadDemo(recordings, outcomes) ==
    /\ \E evs \in recordings, last \in 1..MaxLastTick, outcome \in outcomes :
          demo' = [exists |-> TRUE, bad |-> outcome.bad, message |-> outcome.message,
                   lastTick |-> last, events |-> evs]
    /\ UNCHANGED <<req, res, calls, statsVars, cacheVars, renderVars, ghostVars>>

Decodes == [bad |-> "none", message |-> ""]
FailsIn(call) == [bad : {call}, message : {"unexpected end of file", "bad magic"}]

IdleStats == InitFold("idle") /\ InitRun /\ InitSwap

(***************************************************************************)
(* SpecReplay: positions queries with any start, end and interval against  *)
(* an absent, a readable or an unreadable recording.                       *)
(***************************************************************************)
ReplayEvents ==
    WeaponFireEvents({"p1"}, {1})
        \cup PlayerDeathEvents({"p1"}, {"p2"}, {NoId}, {2})

RawTicks == {RawNumber(t) : t \in 0..MaxLastTick} \cup {RawNumberJunk(1), RawText}
\* interval: absent (the default 1), "0", "2" and "-1"
RawIntervals == {RawNumber(1), RawNumber(0), RawNumber(2), RawNumber(-1)}

ReplayUpload ==
    UploadDemo(SeqsUpTo(ReplayEvents, 1),
               {Decodes} \cup FailsIn("parseTicks") \cup FailsIn("parseEvents"))

ReplayQuery ==
    \E s \in RawTicks, e \in RawTicks, n \in RawIntervals :
        GetPositions(Query(s, e, n))

InitReplay == IdleStats /\ InitRest
NextReplay == ReplayUpload \/ ReplayQuery
SpecReplay == InitReplay /\ [][NextReplay]_vars

\* a query value that is not a number, and a range that is inverted
NonNumeric(raw) == ~raw.lead \/ raw.rest # ""
Inverted(q) ==
    /\ ~isNaN(parseInt(q.startTick)) /\ ~isNaN(parseInt(q.endTick))
    /\ parseInt(q.startTick).v > parseInt(q.endTick).v
Malformed(q) == NonNumeric(q.startTick) \/ NonNumeric(q.endTick) \/ Inverted(q)

\* C18: a positions query whose startTick or endTick is not numeric, or whose
\* startTick is greater than its endTick, is answered with an error response
\* and no decoder call (parseTicks, parseEvents) has been made for it.
C18_MalformedRejected ==
    (req # Null /\ Malformed(req)) =>
        (res.status \in {400, 404} /\ calls = <<>>)

\* the part of C18 the handler does implement: a start or end that parseInt
\* reads as NaN
C18_NaNRejected ==
    (req # Null /\ (isNaN(parseInt(req.startTick)) \/ isNaN(parseInt(req.endTick)))) =>
        (res.status \in {400, 404} /\ calls = <<>>)

C18_InvertedAccepted ==
    /\ req # Null /\ Inverted(req) /\ ~NonNumeric(req.startTick)
    /\ ~NonNumeric(req.endTick)
    /\ res.status = 200
    /\ calls # <<>>

(***************************************************************************)
(* app.get('/api/demos/:filename'), the statistics query.                  *)
(***************************************************************************)
StatsEventNames ==
    {"player_death", "round_end", "player_team", "player_hurt", "round_freeze_end"}

\* parseHeader(filePath)
parseHeader(d) == [map_name |-> "de_dust2", lastTick |-> d.lastTick]

\* a handler that keeps the header when parseEvents throws
DemoDetailsPartial(d) ==
    IF ~d.exists
    THEN Response(404, [error |-> "Demo file not found"], <<>>)
    ELSE IF d.bad = "parseHeader"
    THEN Response(500, [error |-> "Failed to parse demo", details |-> d.message],
                  <<"parseHeader">>)
    ELSE IF d.bad = "parseEvents"
    THEN Response(200, [header |-> parseHeader(d)], <<"parseHeader", "parseEvents">>)
    ELSE Response(200,
                  [header |-> parseHeader(d),
                   matchStats |->
                       ReturnValue(FoldEvents(InitialFoldState,
                           SortByTick(parseEvents(d, StatsEventNames))))],
                  <<"parseHeader", "parseEvents">>)

\* the whole handler: the response and the decoder calls made on the way
DemoDetails(d) ==
    IF ~d.exists
    THEN Response(404, [error |-> "Demo file not found"], <<>>)
    ELSE IF d.bad = "parseHeader"
    THEN Response(500, [error |-> "Failed to parse demo", details |-> d.message],
                  <<"parseHeader">>)
    ELSE IF d.bad = "parseEvents"
    THEN Response(500, [error |-> "Failed to parse demo", details |-> d.message],
                  <<"parseHeader", "parseEvents">>)
    ELSE Response(200,
                  [header |-> parseHeader(d),
                   matchStats |->
                       ReturnValue(FoldEvents(InitialFoldState,
                           SortByTick(parseEvents(d, StatsEventNames))))],
                  <<"parseHeader", "parseEvents">>)

\* one request to the statistics route
GetDemo ==
    LET r == DemoDetails(demo)
    IN  /\ req' = [route |-> "/api/demos/:filename"]
        /\ res' = [status |-> r.status, body |-> r.body]
        /\ calls' = r.calls
        /\ UNCHANGED <<demo, statsVars, cacheVars, renderVars, ghostVars>>

(***************************************************************************)
(* SpecStats: the statistics query against every recording of at most      *)
(* MaxDemoEvents - 1 events, readable or not, and against an absent one.   *)
(***************************************************************************)
\* the demos directory when the request arrives
Recordings(eventSeqs, outcomes) ==
    [exists : {TRUE}, bad : {o.bad : o \in outcomes},
     message : {o.message : o \in outcomes},
     lastTick : 1..MaxLastTick, events : eventSeqs]

WellFormed(d) == (d.bad = "none") <=> (d.message = "")

InitStats ==
    /\ IdleStats /\ InitCache /\ InitRender /\ InitGhost
    /\ req = Null /\ res = Null /\ calls = <<>>
    /\ \/ demo = [exists |-> FALSE, bad |-> "none", message |-> "", lastTick |-> 0,
                  events |-> <<>>]
       \/ /\ demo \in Recordings(SeqsUpTo(RunEvents, MaxDemoEvents - 1),
                                 {Decodes} \cup FailsIn("parseHeader")
                                     \cup FailsIn("parseEvents"))
          /\ WellFormed(demo)
NextStats == GetDemo
SpecStats == InitStats /\ [][NextStats]_vars

Count(seq, x) == Cardinality({k \in 1..Len(seq) : seq[k] = x})

\* C19: in the statistics query an absent recording is answered not-found,
\* and a recording on which parseHeader or parseEvents raises is answered
\* with an error that carries the decoder's message; neither response holds
\* a header or matchStats, and no decoder call is made twice.
C19_StatsErrors ==
    req # Null =>
        /\ ~demo.exists => (res.status = 404 /\ calls = <<>>)
        /\ (demo.exists /\ demo.bad \in {"parseHeader", "parseEvents"}) =>
              /\ res.status = 500
              /\ res.body.details = demo.message
        /\ (~demo.exists \/ demo.bad \in {"parseHeader", "parseEvents"}) =>
              DOMAIN res.body \cap {"header", "matchStats"} = {}
        /\ Count(calls, "parseHeader") <= 1
        /\ Count(calls, "parseEvents") <= 1

C19_Witness ==
    /\ req # Null /\ demo.exists /\ demo.bad = "parseEvents"
    /\ demo.events # <<>>
    /\ res.status = 500 /\ res.body.details = "bad magic"

(***************************************************************************)
(* SpecGrenade: positions queries against every recording of at most       *)
(* MaxDemoEvents throws and grenade effects.                               *)
(***************************************************************************)
GrenadeEvents ==
    GrenadeThrownEvents({"p1"}, {smokegrenade}, {0, 1})
        \cup GrenadeThrownEvents({"p1"},
                 {flashbang, molotov, hegrenade, decoy}, {1})
        \cup GrenadeThrownEvents({"p1"}, {incgrenade}, {0})
        \cup GrenadeThrownEvents({"p2"}, {smokegrenade}, {1})
        \cup DetonateEvents({"smokegrenade_detonate", "flashbang_detonate",
                             "inferno_startburn"}, {"p1"}, {2})
        \cup DetonateEvents({"hegrenade_detonate"}, {"p1"}, {1})

\* a readable recording sampled up to tick `last`
Readable(evs, last) ==
    [exists |-> TRUE, bad |-> "none", message |-> "", lastTick |-> last,
     events |-> evs]

InitQuery(recordings) ==
    /\ IdleStats /\ InitCache /\ InitRender /\ InitGhost
    /\ req = Null /\ res = Null /\ calls = <<>>
    /\ demo \in recordings

\* the round windows the clients ask for: the whole recording, and a window
\* that starts after the throws
GrenadeQuery ==
    \E start \in {0, 2} :
        GetPositions(Query(RawNumber(start), RawNumber(MaxLastTick), RawNumber(1)))

InitGrenade ==
    InitQuery({Readable(evs, last) :
                  evs \in SeqsUpTo(GrenadeEvents, MaxDemoEvents),
                  last \in {0, MaxLastTick}})
NextGrenade == GrenadeQuery
SpecGrenade == InitGrenade /\ [][NextGrenade]_vars

\* the substrings that make a throw one of a category
CategorySubstrings(event_name) ==
    CASE event_name = "smokegrenade_detonate" -> {smokegrenade}
      [] event_name = "hegrenade_detonate" -> {hegrenade}
      [] event_name = "flashbang_detonate" -> {flashbang}
      [] event_name = "inferno_startburn" -> {molotov, incgrenade}

\* the grenade effects of the recording inside the requested range, in order
EffectsInRange ==
    LET start == parseInt(req.startTick).v
        end == parseInt(req.endTick).v
        effect(e) == e.event_name \in DetonateEventNames /\ InRange(e, start, end)
    IN  SelectSeq(demo.events, effect)

\* the ticks of the throws that qualify for effect e
QualifyingThrowTicks(e) ==
    {t.tick : t \in
        {x \in {demo.events[k] : k \in 1..Len(demo.events)} :
            /\ x.event_name = "grenade_thrown"
            /\ x.tick < e.tick
            /\ x.user_steamid = e.user_steamid
            /\ \E sub \in CategorySubstrings(e.event_name) : includes(x.weapon, sub)}}

\* C11: every grenade effect of the response is matched with the throw of
\* the greatest tick among the grenade_thrown events that are strictly
\* earlier, by the same thrower and of a weapon whose name contains the
\* category's substring; when no throw qualifies throwTick and throwPos are
\* null, and the query is answered without an error.
C11_ThrowMatch ==
    req # Null =>
        /\ res.status = 200
        /\ Len(res.body.grenades) = Len(EffectsInRange)
        /\ \A k \in 1..Len(EffectsInRange) :
              LET e == EffectsInRange[k]
                  g == res.body.grenades[k]
                  qualifying == QualifyingThrowTicks(e)
              IN  /\ g.tick = e.tick /\ g.throwerSteamId = e.user_steamid
                  /\ IF qualifying = {}
                     THEN g.throwTick = Null /\ g.throwPos = Null
                     ELSE g.throwTick =
                            NumberValue(CHOOSE t \in qualifying :
                                            \A u \in qualifying : u <= t)

\* smoke thrown at 0, flash thrown at 1, smoke effect at 2: matched with 0
C11_Witness ==
    /\ req # Null
    /\ demo.events =
          << [event_name |-> "grenade_thrown", tick |-> 0, user_steamid |-> "p1",
              weapon |-> smokegrenade],
             [event_name |-> "grenade_thrown", tick |-> 1, user_steamid |-> "p1",
              weapon |-> flashbang],
             [event_name |-> "smokegrenade_detonate", tick |-> 2,
              user_steamid |-> "p1"] >>
    /\ Len(res.body.grenades) = 1
    /\ res.body.grenades[1].type = "smoke"
    /\ res.body.grenades[1].throwTick = NumberValue(0)

\* an effect without a qualifying throw: both fields are null
C11_WitnessNoThrow ==
    /\ req # Null
    /\ \E k \in 1..Len(res.body.grenades) :
          /\ res.body.grenades[k].throwTick = Null
          /\ res.body.grenades[k].throwPos = Null
          /\ \E j \in 1..Len(demo.events) :
                demo.events[j].event_name = "grenade_thrown"

(***************************************************************************)
(* SpecBlind: positions queries against every recording of at most         *)
(* MaxDemoEvents player_blind events.  Durations are in 1/64 of a second.  *)
(***************************************************************************)
BlindEvents ==
    PlayerBlindEvents({"p1"}, {Undefined, 1, 2, 3}, {0, 1})
        \cup PlayerBlindEvents({"p2"}, {2}, {1})

BlindQuery ==
    \E start \in {0, 1}, n \in {1, 2} :
        GetPositions(Query(RawNumber(start), RawNumber(MaxLastTick), RawNumber(n)))

InitBlind ==
    InitQuery({Readable(evs, MaxLastTick) :
                  evs \in SeqsUpTo(BlindEvents, MaxDemoEvents)})
NextBlind == BlindQuery
SpecBlind == InitBlind /\ [][NextBlind]_vars

\* the remaining durations (in 1/64 s) at tick t of the blind events of the
\* recording that blind this player and are active at t
RemainingAt(steamid, t) ==
    {b.tick + OrZero(b.blind_duration) - t : b \in
        {x \in {demo.events[k] : k \in 1..Len(demo.events)} :
            /\ x.event_name = "player_blind"
            /\ x.user_steamid = steamid
            /\ x.tick <= t
            /\ t < x.tick + OrZero(x.blind_duration)}}

\* the same, of the blind events that start inside the requested range
RemainingInRangeAt(steamid, t) ==
    {b.tick + OrZero(b.blind_duration) - t : b \in
        {x \in {demo.events[k] : k \in 1..Len(demo.events)} :
            /\ x.event_name = "player_blind"
            /\ x.user_steamid = steamid
            /\ x.tick >= parseInt(req.startTick).v
            /\ x.tick <= t
            /\ t < x.tick + OrZero(x.blind_duration)}}

MaxOf(S) == CHOOSE m \in S : \A n \in S : n <= m

FlashReported(remaining(_, _)) ==
    req # Null =>
        \A t \in DOMAIN res.body.positions :
            \A k \in 1..Len(res.body.positions[t]) :
                LET p == res.body.positions[t][k]
                    left == remaining(p.steamid, t)
                IN  p.flash_duration =
                        IF left = {} THEN Undefined ELSE MaxOf(left)

\* C12: for every player_blind event of the recording with start s and
\* duration d, the player's snapshot at a sampled tick t with
\* s <= t < s + 64 d reports flash_duration (s + 64 d - t) / 64, the maximum
\* over the events active at t, and reports none when no event is active.
C12_BlindDuration == FlashReported(RemainingAt)

\* what the handler computes: the same over the blind events that start at
\* or after startTick
C12_BlindDurationInRange == FlashReported(RemainingInRangeAt)

C12_BlindBeforeRange ==
    /\ req # Null
    /\ parseInt(req.startTick).v = 1
    /\ demo.events = << [event_name |-> "player_blind", tick |-> 0,
                         user_steamid |-> "p1", blind_duration |-> 3] >>
    /\ res.body.positions[1][1].steamid = "p1"
    /\ res.body.positions[1][1].flash_duration = Undefined

(***************************************************************************)
(* getDemoSummary and its cache, app.get('/api/demos'), upload and delete. *)
(*                                                                         *)
(* files maps the names present in the demos directory to their content;   *)
(* a content has a size and either decodes or makes the decoder throw.     *)
(* Two contents may have the same size.  demoSummaryCache is the Map: a    *)
(* function whose domain is the set of keys set so far.                    *)
(***************************************************************************)
DemoFiles == <<"a.dem", "b.dem">>

Contents ==
    {[id |-> "v1", size |-> 1, decodes |-> TRUE],
     [id |-> "v2", size |-> 1, decodes |-> TRUE],
     [id |-> "v3", size |-> 2, decodes |-> TRUE],
     [id |-> "x1", size |-> 1, decodes |-> FALSE],
     [id |-> "x2", size |-> 2, decodes |-> FALSE]}

\* the summary object built from the decoder's output for a content
Summarize(content) == [of |-> content.id, map |-> "de_dust2"]

MapGet(map, key) == IF key \in DOMAIN map THEN map[key] ELSE Null
MapSet(map, key, value) ==
    [k \in DOMAIN map \cup {key} |-> IF k = key THEN value ELSE map[k]]

\* a getDemoSummary that serves any cached entry, whatever its size
getDemoSummaryAnySize(cache, dir, filePath) ==
    LET cached == MapGet(cache, filePath)
    IN  IF cached # Null
        THEN [summary |-> cached.summary, cache |-> cache, parsed |-> FALSE]
        ELSE IF dir[filePath].decodes
        THEN [summary |-> Summarize(dir[filePath]),
              cache |-> MapSet(cache, filePath,
                               [size |-> dir[filePath].size,
                                summary |-> Summarize(dir[filePath])]),
              parsed |-> TRUE]
        ELSE [summary |-> Null, cache |-> cache, parsed |-> TRUE]

\* getDemoSummary(filePath): the value returned, the cache afterwards, and
\* whether the decoder was called
getDemoSummary(cache, dir, filePath) ==
    LET fileStats == [size |-> dir[filePath].size]
        cached == MapGet(cache, filePath)
    IN  IF cached # Null /\ cached.size = fileStats.size
        THEN [summary |-> cached.summary, cache |-> cache, parsed |-> FALSE]
        ELSE IF dir[filePath].decodes
        THEN [summary |-> Summarize(dir[filePath]),
              cache |-> MapSet(cache, filePath,
                               [size |-> fileStats.size,
                                summary |-> Summarize(dir[filePath])]),
              parsed |-> TRUE]
        ELSE [summary |-> Null, cache |-> cache, parsed |-> TRUE]

\* files.map(...) of the list handler over the names left to visit: the
\* list built, the cache afterwards and the files the decoder was called on
RECURSIVE DemoList(_, _, _)
DemoList(names, cache, dir) ==
    IF names = <<>> THEN [list |-> <<>>, cache |-> cache, parsed |-> <<>>]
    ELSE LET file == Head(names)
             got == getDemoSummary(cache, dir, file)
             rest == DemoList(Tail(names), got.cache, dir)
         IN  [list |-> <<[name |-> file, size |-> dir[file].size,
                          summary |-> got.summary]>> \o rest.list,
              cache |-> rest.cache,
              parsed |-> (IF got.parsed THEN <<file>> ELSE <<>>) \o rest.parsed]

\* app.get('/api/demos')
ListDemos ==
    LET present(f) == f \in DOMAIN files
        r == DemoList(SelectSeq(DemoFiles, present), demoSummaryCache, files)
    IN  /\ req' = [route |-> "/api/demos"]
        /\ res' = [status |-> 200, body |-> r.list]
        /\ calls' = r.parsed
        /\ demoSummaryCache' = r.cache
        /\ UNCHANGED <<demo, files, statsVars, renderVars, ghostVars>>

\* app.post('/api/demos/upload'): the file is written under its name
UploadFile ==
    /\ \E f \in {DemoFiles[k] : k \in 1..Len(DemoFiles)}, c \in Contents :
          files' = MapSet(files, f, c)
    /\ UNCHANGED <<demoSummaryCache, serverVars, statsVars, renderVars, ghostVars>>

\* app.delete('/api/demos/:filename'): unlinkSync, the cache is not touched
DeleteFile ==
    /\ \E f \in DOMAIN files :
          files' = [k \in DOMAIN files \ {f} |-> files[k]]
    /\ UNCHANGED <<demoSummaryCache, serverVars, statsVars, renderVars, ghostVars>>

InitCacheSpec == IdleStats /\ InitRest
NextCache == ListDemos \/ UploadFile \/ DeleteFile
SpecCache == InitCacheSpec /\ [][NextCache]_vars

\* every cached summary was computed from a content of the size it is
\* stored under
ComputedAtStoredSize ==
    \A f \in DOMAIN demoSummaryCache :
        \E c \in Contents :
            /\ c.decodes
            /\ demoSummaryCache[f].summary = Summarize(c)
            /\ demoSummaryCache[f].size = c.size

Hit(f) ==
    f \in DOMAIN demoSummaryCache /\ demoSummaryCache[f].size = files[f].size

Returned(f) ==
    LET k == CHOOSE j \in 1..Len(res'.body) : res'.body[j].name = f
    IN  res'.body[k].summary

Parsed(f) == \E k \in 1..Len(calls') : calls'[k] = f

Fresh(f) == [size |-> files[f].size, summary |-> Summarize(files[f])]

\* the statement of C17 as written: a size difference always replaces the entry
C17_Step_Original ==
    ListDemos =>
        \A f \in DOMAIN files :
            /\ Hit(f) <=> ~Parsed(f)
            /\ Hit(f) => Returned(f) = demoSummaryCache[f].summary
            /\ ~Hit(f) => MapGet(demoSummaryCache', f) = Fresh(f)

C17_Original == []ComputedAtStoredSize /\ [][C17_Step_Original]_vars

C17_Step ==
    ListDemos =>
        \A f \in DOMAIN files :
            /\ Hit(f) <=> ~Parsed(f)
            /\ Hit(f) => /\ Returned(f) = demoSummaryCache[f].summary
                         /\ demoSummaryCache'[f] = demoSummaryCache[f]
            /\ (~Hit(f) /\ files[f].decodes) =>
                   /\ Returned(f) = Summarize(files[f])
                   /\ demoSummaryCache'[f] = Fresh(f)
            /\ (~Hit(f) /\ ~files[f].decodes) =>
                   /\ Returned(f) = Null
                   /\ MapGet(demoSummaryCache', f) = MapGet(demoSummaryCache, f)

\* C17: the cache holds at most one entry per path; a list query returns the
\* stored summary without calling the decoder exactly when the stored size
\* equals the file's size; otherwise it calls the decoder and, when the
\* decoder succeeds, replaces the entry, and when it throws returns null and
\* leaves the entry as it was; every entry was computed at the size it is
\* stored under.
C17_Cache == []ComputedAtStoredSize /\ [][C17_Step]_vars

\* a list query served a stored summary for one file and left a stale entry
\* of another behind a decoder failure
C17_Witness ==
    /\ req # Null
    /\ calls = <<"b.dem">>
    /\ DOMAIN files = {"a.dem", "b.dem"}
    /\ ~files["b.dem"].decodes
    /\ "b.dem" \in DOMAIN demoSummaryCache
    /\ demoSummaryCache["b.dem"].size # files["b.dem"].size
    /\ Len(res.body) = 2
    /\ res.body[1].summary = demoSummaryCache["a.dem"].summary
    /\ res.body[2].summary = Null

(***************************************************************************)
(* RoundVisualizer: the data loaded for a round, the playback position and *)
(* what render() draws.                                                    *)
(*                                                                         *)
(* playbackTime counts 1/LerpDen of a tick interval, so that the tick      *)
(* index is playbackTime \div LerpDen and lerpFactor is                    *)
(* (playbackTime % LerpDen) / LerpDen.  Every interpolated quantity of a   *)
(* frame is held multiplied by LerpDen.                                    *)
(***************************************************************************)
LerpDen == 2

Min(a, b) == IF a <= b THEN a ELSE b

\* Object.keys(posData).map(Number).sort((a, b) => a - b)
SortedTicks(posData) ==
    LET S == DOMAIN posData
    IN  [k \in 1..Cardinality(S) |->
            CHOOSE t \in S : Cardinality({u \in S : u < t}) = k - 1]

\* positions[tick] || []
PlayersAt(pos, tick) == IF tick \in DOMAIN pos THEN pos[tick] ELSE <<>>

\* playersUpper.find(u => u.steamid === pLower.steamid) || pLower
UpperOf(playersUpper, pLower) ==
    LET hits == {k \in 1..Len(playersUpper) :
                    playersUpper[k].steamid = pLower.steamid}
    IN  IF hits = {} THEN pLower
        ELSE playersUpper[CHOOSE k \in hits : \A h \in hits : k <= h]

\* diffYaw without the two corrections
DiffYawUnwrapped(lower, upper) == upper - lower

\* diffYaw after the two corrections
DiffYaw(lower, upper) ==
    LET diff == upper - lower
        down == IF diff > 180 THEN diff - 360 ELSE diff
    IN  IF down < -180 THEN down + 360 ELSE down

\* a + (b - a) * lerpFactor, multiplied by LerpDen
Lerp(a, b, num) == a * LerpDen + (b - a) * num

\* the discrete fields of a drawn player, taken from the upper snapshot
DiscreteFromUpper(pLower, pUpper) == [team |-> pUpper.team, health |-> pUpper.health]

\* the discrete fields of a drawn player (name, armor, has_helmet,
\* has_defuser, active_weapon_name and inventory are read like health)
Discrete(pLower, pUpper) == [team |-> pLower.team, health |-> pLower.health]

\* what playersLower.forEach draws for one player
DrawnPlayer(pLower, playersUpper, num) ==
    LET pUpper == UpperOf(playersUpper, pLower)
        shown == Discrete(pLower, pUpper)
    IN  [steamid |-> pLower.steamid,
         team |-> shown.team,
         health |-> shown.health,
         curX |-> Lerp(pLower.x, pUpper.x, num),
         curY |-> Lerp(pLower.y, pUpper.y, num),
         curYaw |-> pLower.yaw * LerpDen + DiffYaw(pLower.yaw, pUpper.yaw) * num,
         curFlashDuration |->
             Lerp(OrZero(pLower.flash_duration), OrZero(pUpper.flash_duration), num)]

\* e.x && e.y on an event that may carry coordinates
HasPosition(e) == "x" \in DOMAIN e /\ e.x # 0 /\ e.y # 0

\* bombEvents.filter(e => e.tick <= currentTick).sort(by tick).pop(), with
\* currentTick = tickLower + num / LerpDen
LatestBombEvent(bombs, tickLower, num) ==
    LET passed(e) == e.tick * LerpDen <= tickLower * LerpDen + num
        sorted == SortByTick(SelectSeq(bombs, passed))
    IN  IF sorted = <<>> THEN Null ELSE sorted[Len(sorted)]

\* bombEvents.find(e => e.event_name === 'bomb_planted' && e.tick <= latest.tick)
PlantEvent(bombs, latest) ==
    LET hits == {k \in 1..Len(bombs) :
                    bombs[k].event_name = "bomb_planted" /\ bombs[k].tick <= latest.tick}
    IN  IF hits = {} THEN Null
        ELSE bombs[CHOOSE k \in hits : \A h \in hits : k <= h]

PositionOf(e) == IF e # Null /\ HasPosition(e) THEN [x |-> e.x, y |-> e.y] ELSE Null

\* a bomb logic that keeps the previous frame's status when no event applies
BombKeepingPrevious(bombs, tickLower, num) ==
    LET latest == LatestBombEvent(bombs, tickLower, num)
    IN  IF latest = Null
        THEN IF frame = Null
             THEN [bombStatus |-> "none", carrierId |-> NoId, bombPos |-> Null]
             ELSE [bombStatus |-> frame.bombStatus, carrierId |-> frame.carrierId,
                   bombPos |-> frame.bombPos]
        ELSE [bombStatus |-> "carried", carrierId |-> latest.user_steamid,
              bombPos |-> Null]

\* the bomb logic of render(): status, carrier and ground position
Bomb(bombs, tickLower, num) ==
    LET latest == LatestBombEvent(bombs, tickLower, num)
    IN  IF latest = Null
        THEN [bombStatus |-> "none", carrierId |-> NoId, bombPos |-> Null]
        ELSE CASE latest.event_name = "bomb_pickup" ->
                    [bombStatus |-> "carried", carrierId |-> latest.user_steamid,
                     bombPos |-> Null]
               [] latest.event_name = "bomb_dropped" ->
                    [bombStatus |-> "dropped", carrierId |-> NoId,
                     bombPos |-> PositionOf(latest)]
               [] latest.event_name = "bomb_planted" ->
                    [bombStatus |-> "planted", carrierId |-> NoId,
                     bombPos |-> PositionOf(latest)]
               [] latest.event_name = "bomb_exploded" ->
                    [bombStatus |-> "exploded", carrierId |-> NoId,
                     bombPos |-> PositionOf(PlantEvent(bombs, latest))]
               [] latest.event_name = "bomb_defused" ->
                    [bombStatus |-> "defused", carrierId |-> NoId,
                     bombPos |-> PositionOf(PlantEvent(bombs, latest))]
               [] OTHER ->
                    [bombStatus |-> "none", carrierId |-> NoId, bombPos |-> Null]

\* render(): nothing is drawn while no tick is loaded; otherwise the frame
Render(tks, pos, bombs, time) ==
    IF Len(tks) = 0 THEN frame
    ELSE LET lowerIndex == time \div LerpDen
             upperIndex == Min(lowerIndex + 1, Len(tks) - 1)
             num == time % LerpDen
             tickLower == tks[lowerIndex + 1]
             tickUpper == tks[upperIndex + 1]
             playersLower == PlayersAt(pos, tickLower)
             playersUpper == PlayersAt(pos, tickUpper)
             bomb == Bomb(bombs, tickLower, num)
         IN  [tickLower |-> tickLower, tickUpper |-> tickUpper, num |-> num,
              bombStatus |-> bomb.bombStatus, carrierId |-> bomb.carrierId,
              bombPos |-> bomb.bombPos,
              players |-> [k \in 1..Len(playersLower) |->
                              DrawnPlayer(playersLower[k], playersUpper, num)],
              sidebar |-> playersLower]

\* (ticks.length - 1) * TICK_INTERVAL
MaxTime == (Len(ticks) - 1) * LerpDen

\* onChange of the timeline slider (the controls are rendered once the
\* component is not loading)
Scrub ==
    /\ ~loading
    /\ \E val \in 0..Max(MaxTime, 0) :
        /\ isPlaying' = FALSE
        /\ playbackTime' = val
        /\ frame' = Render(ticks, positions, bombEvents, val)
        /\ UNCHANGED <<ticks, positions, bombEvents, loading, serverVars, statsVars,
                       cacheVars, ghostVars>>

\* onClick of the play button
TogglePlay ==
    /\ ~loading
    /\ isPlaying' = ~isPlaying
    /\ UNCHANGED <<ticks, positions, bombEvents, playbackTime, frame, loading,
                   serverVars, statsVars, cacheVars, ghostVars>>

\* an animation frame that advances the time whether playing or not
AnimateAlways ==
    \E deltaTime \in 1..2 :
        LET advanced == playbackTime + deltaTime
            time == IF advanced >= MaxTime THEN MaxTime ELSE advanced
        IN  /\ playbackTime' = time
            /\ isPlaying' = (isPlaying /\ advanced < MaxTime)
            /\ frame' = Render(ticks, positions, bombEvents, time)
            /\ UNCHANGED <<ticks, positions, bombEvents, loading, serverVars,
                           statsVars, cacheVars, ghostVars>>

\* animate(time): one animation frame, deltaTime being 1 or 2 steps
Animate ==
    \E deltaTime \in 1..2 :
        LET advanced == playbackTime + deltaTime
            time == IF ~isPlaying THEN playbackTime
                    ELSE IF advanced >= MaxTime THEN MaxTime ELSE advanced
        IN  /\ playbackTime' = time
            /\ isPlaying' = (isPlaying /\ advanced < MaxTime)
            /\ frame' = Render(ticks, positions, bombEvents, time)
            /\ UNCHANGED <<ticks, positions, bombEvents, loading, serverVars,
                           statsVars, cacheVars, ghostVars>>

\* the .then and .finally of the load effect, for the response to
\* getPositions(filename, round.startTick, round.endTick, 1)
LoadRound(startTick, endTick) ==
    LET data == Positions(demo, Query(RawNumber(startTick), RawNumber(endTick),
                                      RawNumber(1)))
    IN  /\ data.status = 200
        /\ ticks' = SortedTicks(data.body.positions)
        /\ positions' = data.body.positions
        /\ bombEvents' = data.body.bombEvents
        /\ playbackTime' = 0
        /\ loading' = FALSE
        /\ UNCHANGED <<isPlaying, frame, serverVars, statsVars, cacheVars, ghostVars>>

\* the request of the load effect is rejected: only .finally runs
LoadFailed ==
    /\ loading
    /\ loading' = FALSE
    /\ UNCHANGED <<ticks, positions, bombEvents, playbackTime, isPlaying, frame,
                   serverVars, statsVars, cacheVars, ghostVars>>

(***************************************************************************)
(* SpecBomb: a round of a recording of at most MaxDemoEvents objective     *)
(* events is loaded from the positions query and scrubbed.                 *)
(***************************************************************************)
ObjectiveEvents ==
    BombEvents({"bomb_pickup"}, {"p1"}, {0})
        \cup BombEvents({"bomb_dropped"}, {"p1"}, {1})
        \cup BombEvents({"bomb_planted"}, {"p1"}, {0})
        \cup BombEvents({"bomb_planted"}, {"p2"}, {2})
        \cup BombEvents({"bomb_exploded"}, {"p1"}, {3})
        \cup BombEvents({"bomb_defused"}, {"p2"}, {3})

BombLoad == \E startTick \in {0, 1} : LoadRound(startTick, MaxLastTick)

InitBomb ==
    InitQuery({Readable(evs, MaxLastTick) :
                  evs \in SeqsUpTo(ObjectiveEvents, MaxDemoEvents)})
NextBomb == BombLoad \/ Scrub
SpecBomb == InitBomb /\ [][NextBomb]_vars

\* a step in which render() ran on loaded data
Rendered == (Scrub \/ Animate) /\ ticks # <<>>

\* the loaded objective events at or before the playback tick of the new
\* frame, and the last of those of greatest tick
PassedEvents ==
    {k \in 1..Len(bombEvents) :
        bombEvents[k].tick * LerpDen <= frame'.tickLower * LerpDen + frame'.num}
LatestPassed ==
    bombEvents[CHOOSE k \in PassedEvents :
                  \A h \in PassedEvents :
                      \/ bombEvents[h].tick < bombEvents[k].tick
                      \/ (bombEvents[h].tick = bombEvents[k].tick /\ h <= k)]

StatusOf(event_name) ==
    CASE event_name = "bomb_pickup" -> "carried"
      [] event_name = "bomb_dropped" -> "dropped"
      [] event_name = "bomb_planted" -> "planted"
      [] event_name = "bomb_exploded" -> "exploded"
      [] event_name = "bomb_defused" -> "defused"

C13_Step ==
    Rendered =>
        IF PassedEvents = {}
        THEN frame'.bombStatus = "none" /\ frame'.carrierId = NoId
        ELSE /\ frame'.bombStatus = StatusOf(LatestPassed.event_name)
             /\ frame'.carrierId =
                   IF LatestPassed.event_name = "bomb_pickup"
                   THEN LatestPassed.user_steamid ELSE NoId

\* C13: the bomb status of every frame is determined by the objective event
\* of greatest tick at or before the playback tick in the loaded list (the
\* last such event when several share that tick): pickup gives carried by
\* its player, dropped, planted, exploded and defused give the status of
\* the same name, and no such event gives none, whatever the frame before.
C13_BombStatus == [][C13_Step]_vars

\* scrubbed back from a later status to a tick before every event
C13_Witness ==
    /\ frame # Null
    /\ frame.bombStatus = "none"
    /\ frame.tickLower = 1
    /\ Len(bombEvents) = 3
    /\ \A k \in 1..3 : bombEvents[k].tick > 1

C13_WitnessCarried ==
    /\ frame # Null
    /\ frame.bombStatus = "carried" /\ frame.carrierId = "p1"
    /\ frame.tickLower = 2
    /\ Len(bombEvents) = 3

\* the plants at or before the latest event, and the most recent of them
PrecedingPlants ==
    {k \in 1..Len(bombEvents) :
        /\ bombEvents[k].event_name = "bomb_planted"
        /\ bombEvents[k].tick <= LatestPassed.tick}
MostRecentPlant ==
    bombEvents[CHOOSE k \in PrecedingPlants :
                  \A h \in PrecedingPlants :
                      \/ bombEvents[h].tick < bombEvents[k].tick
                      \/ (bombEvents[h].tick = bombEvents[k].tick /\ h <= k)]

C14_Step ==
    (/\ Rendered
     /\ PassedEvents # {}
     /\ LatestPassed.event_name \in {"bomb_exploded", "bomb_defused"}) =>
        IF \E k \in PrecedingPlants : HasPosition(bombEvents[k])
        THEN HasPosition(MostRecentPlant) =>
                frame'.bombPos = [x |-> MostRecentPlant.x, y |-> MostRecentPlant.y]
        ELSE frame'.bombPos = Null

\* C14: when the latest objective event at or before the playback tick is
\* bomb_exploded or bomb_defused, the bomb position of the frame is that of
\* the most recent bomb_planted event at or before it, and is omitted when
\* no such plant with a position exists.
C14_PlantPosition == [][C14_Step]_vars

\* two plants before the explosion: the frame shows the bomb at the first
C14_EarlierPlantShown ==
    /\ frame # Null
    /\ frame.bombStatus = "exploded"
    /\ Len(bombEvents) = 3
    /\ bombEvents[1].event_name = "bomb_planted" /\ bombEvents[1].tick = 0
    /\ bombEvents[2].event_name = "bomb_planted" /\ bombEvents[2].tick = 2
    /\ HasPosition(bombEvents[1]) /\ HasPosition(bombEvents[2])
    /\ frame.bombPos = [x |-> bombEvents[1].x, y |-> bombEvents[1].y]

(***************************************************************************)
(* SpecRender: two loaded snapshots, the lower at tick 0 and the upper at  *)
(* tick 1, of any players of the sets below; played and scrubbed.          *)
(***************************************************************************)
Yaws == {-170, -90, 0, 90, 170, 180}

LoadedSnapshots(teamSet, healthSet, xSet, flashSet) ==
    [steamid : {"p1"}, team : teamSet, health : healthSet, x : xSet, y : {5},
     z : {1}, yaw : Yaws, flash_duration : flashSet]

Bystander ==
    [steamid |-> "p2", team |-> 3, health |-> 100, x |-> 50, y |-> 50, z |-> 1,
     yaw |-> 0, flash_duration |-> Undefined]

LowerLists ==
    LET S == LoadedSnapshots({2, 3}, {100}, {10}, {Undefined, 32})
    IN  {<<l>> : l \in S} \cup {<<l, Bystander>> : l \in S}

UpperLists ==
    LET S == LoadedSnapshots({2, 3}, {100, 40}, {10, 30}, {Undefined, 16})
    IN  {<<>>} \cup {<<u>> : u \in S} \cup {<<Bystander, u>> : u \in S}

InitRenderSpec ==
    /\ IdleStats /\ InitServer /\ InitCache /\ InitGhost
    /\ ticks = <<0, 1>>
    /\ \E lower \in LowerLists, upper \in UpperLists :
          positions = [t \in {0, 1} |-> IF t = 0 THEN lower ELSE upper]
    /\ bombEvents = <<>>
    /\ playbackTime = 0
    /\ isPlaying = FALSE
    /\ frame = Null
    /\ loading = FALSE
NextRender == Scrub \/ TogglePlay \/ Animate
SpecRender == InitRenderSpec /\ [][NextRender]_vars

\* the lower and upper snapshots the new frame was drawn from
LowerSnapshot == positions[frame'.tickLower]
UpperSnapshot == positions[frame'.tickUpper]
InUpper(l) == \E k \in 1..Len(UpperSnapshot) : UpperSnapshot[k].steamid = l.steamid
UpperSample(l) ==
    UpperSnapshot[CHOOSE k \in 1..Len(UpperSnapshot) :
                     /\ UpperSnapshot[k].steamid = l.steamid
                     /\ \A h \in 1..(k - 1) : UpperSnapshot[h].steamid # l.steamid]

Abs(n) == IF n < 0 THEN -n ELSE n

C15_Step ==
    Rendered =>
        \A k \in 1..Len(LowerSnapshot) :
            LET l == LowerSnapshot[k]
                upperYaw == IF InUpper(l) THEN UpperSample(l).yaw ELSE l.yaw
            IN  \E d \in {upperYaw - l.yaw + 360 * turn : turn \in {-1, 0, 1}} :
                    /\ Abs(d) <= 180
                    /\ frame'.players[k].curYaw = l.yaw * LerpDen + d * frame'.num

\* C15: the yaw drawn for a player is lower + d * f, where d is the
\* difference upper - lower wrapped by one turn of 360 so that |d| <= 180.
C15_YawShortestPath == [][C15_Step]_vars

\* from 170 to -170 the angle passes through 180: halfway it is 180
C15_Witness ==
    /\ frame # Null
    /\ frame.num = 1
    /\ positions[0][1].yaw = 170
    /\ Len(positions[1]) = 1 /\ positions[1][1].yaw = -170
    /\ frame.tickLower = 0
    /\ frame.players[1].curYaw = 170 * LerpDen + 20

C16_Step ==
    Rendered =>
        /\ Len(frame'.players) = Len(LowerSnapshot)
        /\ frame'.sidebar = LowerSnapshot
        /\ \A k \in 1..Len(LowerSnapshot) :
              LET l == LowerSnapshot[k]
                  drawn == frame'.players[k]
                  u == IF InUpper(l) THEN UpperSample(l) ELSE l
              IN  /\ drawn.steamid = l.steamid
                  /\ drawn.team = l.team
                  /\ drawn.health = l.health
                  /\ drawn.curX = l.x * LerpDen + (u.x - l.x) * frame'.num
                  /\ drawn.curY = l.y * LerpDen + (u.y - l.y) * frame'.num
                  /\ drawn.curFlashDuration =
                        OrZero(l.flash_duration) * LerpDen
                            + (OrZero(u.flash_duration) - OrZero(l.flash_duration))
                                  * frame'.num
                  /\ ~InUpper(l) =>
                        /\ drawn.curX = l.x * LerpDen
                        /\ drawn.curY = l.y * LerpDen
                        /\ drawn.curYaw = l.yaw * LerpDen

\* C16: a frame holds exactly the players of the lower snapshot, in its
\* order; team and health (the discrete fields) are those of the lower
\* snapshot whatever the upper one holds; x, y and flash_duration are
\* interpolated toward the upper snapshot; a player missing from the upper
\* snapshot is drawn at its lower position and yaw.
C16_LowerSnapshot == [][C16_Step]_vars

\* between the snapshots, with another team, health and x in the upper one
C16_Witness ==
    /\ frame # Null
    /\ frame.num = 1 /\ frame.tickLower = 0
    /\ Len(positions[1]) = 2
    /\ positions[0][1].team = 2 /\ positions[1][2].team = 3
    /\ positions[1][2].health = 40 /\ positions[1][2].x = 30
    /\ frame.players[1].team = 2 /\ frame.players[1].health = 100
    /\ frame.players[1].curX = 10 * LerpDen + 20

C16_WitnessMissing ==
    /\ frame # Null
    /\ frame.num = 1 /\ frame.tickLower = 0
    /\ positions[1] = <<>>
    /\ positions[0][1].yaw = 90
    /\ frame.players[1].curYaw = 90 * LerpDen

(***************************************************************************)
(* MultiRoundVisualizer: the effect that prefetches every round.           *)
(*                                                                         *)
(* Each run of the effect has its own isCancelled flag and its own         *)
(* captured roundDataCache (the value of the render it ran in).  loadAll   *)
(* runs up to its first await when the effect starts, and from one await   *)
(* to the next when a request settles.  A cache entry records the run      *)
(* whose request produced it.                                              *)
(***************************************************************************)
MaxGhostRounds == 3     \* rounds of the match
MaxEffects == 2         \* runs of the effect (mount, then changes of filename or rounds)

\* the rounds prop: round numbers in list order
GhostRounds == [k \in 1..MaxGhostRounds |-> k]

\* a loop that never sees the cancellation
NeverCancelled(run) == FALSE

\* isCancelled, as the closure of this run reads it
IsCancelled(run) == run.cancelled

\* a loop that stops after its first request
NoNextToLoad(run, from) == 0

\* the position in roundsToLoad of the next round, from position `from`,
\* that the captured cache does not hold; 0 when there is none
NextToLoad(run, from) ==
    LET open == {j \in from..Len(run.toLoad) : run.toLoad[j] \notin run.captured}
    IN  IF open = {} THEN 0 ELSE CHOOSE j \in open : \A h \in open : j <= h

\* the rounds from position `from` that the loop passes over as cached
Skipped(run, from) ==
    LET next == NextToLoad(run, from)
    IN  IF next = 0 THEN Len(run.toLoad) - from + 1 ELSE next - from

\* the effect body: cleanup of the previous run, then loadAll() up to its
\* first await
StartEffect ==
    /\ Len(effects) < MaxEffects
    /\ IF effects = <<>> THEN TRUE ELSE ~effects[Len(effects)].cancelled
    /\ LET captured == DOMAIN roundDataCache
           uncached(r) == r \notin captured
           roundsToLoad == SelectSeq(GhostRounds, uncached)
           id == Len(effects) + 1
           run == [cancelled |-> FALSE, captured |-> captured,
                   toLoad |-> roundsToLoad,
                   at |-> IF roundsToLoad = <<>> THEN 0 ELSE 1]
       IN  /\ effects' = [k \in 1..id |->
                             IF k = id THEN run
                             ELSE [effects[k] EXCEPT !.cancelled = TRUE]]
           /\ progress' = [current |-> Len(GhostRounds) - Len(roundsToLoad),
                           total |-> Len(GhostRounds)]
           /\ loadingRounds' =
                 IF roundsToLoad = <<>> THEN loadingRounds
                 ELSE loadingRounds \cup {roundsToLoad[1]}
           /\ requests' =
                 IF roundsToLoad = <<>> THEN requests
                 ELSE requests \cup {[run |-> id, round |-> roundsToLoad[1]]}
    /\ UNCHANGED <<roundDataCache, serverVars, statsVars, cacheVars, renderVars>>

\* the cleanup of the effect when the component unmounts
Unmount ==
    /\ effects # <<>>
    /\ ~effects[Len(effects)].cancelled
    /\ effects' = [effects EXCEPT ![Len(effects)].cancelled = TRUE]
    /\ UNCHANGED <<roundDataCache, progress, loadingRounds, requests, serverVars,
                   statsVars, cacheVars, renderVars>>

\* a getPositions request settles: loadAll() of its run continues after the
\* await, through catch and finally, up to the next await or the loop's end
Settle(q, fulfilled) ==
    LET run == effects[q.run]
        stored == fulfilled /\ ~IsCancelled(run)
        next == IF IsCancelled(run) THEN 0 ELSE NextToLoad(run, run.at + 1)
        passed == IF IsCancelled(run) THEN 0 ELSE Skipped(run, run.at + 1)
        settled == IF IsCancelled(run) THEN loadingRounds
                   ELSE loadingRounds \ {q.round}
    IN  /\ roundDataCache' =
              IF stored
              THEN MapSet(roundDataCache, q.round,
                          [startTick |-> q.round, by |-> q.run])
              ELSE roundDataCache
        /\ progress' = [progress EXCEPT
                           !.current = @ + (IF stored THEN 1 ELSE 0) + passed]
        /\ loadingRounds' =
              IF next = 0 THEN settled ELSE settled \cup {run.toLoad[next]}
        /\ requests' =
              IF next = 0 THEN requests \ {q}
              ELSE (requests \ {q}) \cup {[run |-> q.run, round |-> run.toLoad[next]]}
        /\ effects' = [effects EXCEPT ![q.run].at = next]
        /\ UNCHANGED <<serverVars, statsVars, cacheVars, renderVars>>

Fulfil == \E q \in requests : Settle(q, TRUE)
Reject == \E q \in requests : Settle(q, FALSE)

InitGhostSpec == IdleStats /\ InitRest
NextGhost == StartEffect \/ Unmount \/ Fulfil \/ Reject
SpecGhost == InitGhostSpec /\ [][NextGhost]_vars

RequestsOf(id, reqs) == {q \in reqs : q.run = id}

\* at most one request of a run is in flight, and it is for the round the
\* run is waiting at
OneAtATime ==
    \A id \in 1..Len(effects) :
        /\ Cardinality(RequestsOf(id, requests)) <= 1
        /\ \A q \in RequestsOf(id, requests) :
              effects[id].at > 0 /\ q.round = effects[id].toLoad[effects[id].at]

\* a run issues a request only when its previous one has settled, for a
\* round later in the list; a cancelled run issues none and stores nothing
C20_Step ==
    \A id \in 1..Len(effects) :
        /\ \A q \in RequestsOf(id, requests') \ RequestsOf(id, requests) :
              /\ RequestsOf(id, requests) \cap requests' = {}
              /\ \A old \in RequestsOf(id, requests) : old.round < q.round
              /\ ~effects[id].cancelled
        /\ effects[id].cancelled =>
              \A r \in DOMAIN roundDataCache' :
                  roundDataCache'[r].by = id =>
                      (r \in DOMAIN roundDataCache /\ roundDataCache[r].by = id)

\* C20: within one run of the prefetch effect at most one getPositions
\* request is outstanding; the request for a round is issued only after the
\* previous round's request has settled, in round-list order; after
\* cancellation the run issues no request and writes nothing to the cache.
C20_Sequential == []OneAtATime /\ [][C20_Step]_vars

\* a cancelled run whose last request came back after the cancellation,
\* beside a second run that has fetched a round and waits for the next
C20_Witness ==
    /\ Len(effects) = 2
    /\ effects[1].cancelled /\ effects[1].at = 0
    /\ effects[1].toLoad = GhostRounds
    /\ DOMAIN roundDataCache = {1, 2}
    /\ roundDataCache[1].by = 1 /\ roundDataCache[2].by = 2
    /\ requests = {[run |-> 2, round |-> 3]}


\* the round whose request this step settled
SettledRequests == requests \ requests'

C21_Step ==
    Reject =>
        /\ roundDataCache' = roundDataCache
        /\ \A q \in SettledRequests :
              LET run == effects[q.run]
              IN  (~run.cancelled /\ run.at < Len(run.toLoad)) =>
                      [run |-> q.run, round |-> run.toLoad[run.at + 1]] \in requests'

C21_Progress ==
    /\ progress.current <= progress.total
    /\ effects # <<>> => progress.current = Cardinality(DOMAIN roundDataCache)
    /\ (effects # <<>> /\ DOMAIN roundDataCache = 1..MaxGhostRounds) =>
           progress.current = progress.total

\* C21: a failed fetch leaves the cache as it was (no entry for its round,
\* no other entry changed) and the run goes on to request the next round;
\* progress.current is the number of cached rounds, never exceeds
\* progress.total, and equals it once every round is cached.
C21_FailedFetch == []C21_Progress /\ [][C21_Step]_vars

\* round 2 failed; rounds 1 and 3 are cached and the run has ended
C21_Witness ==
    /\ Len(effects) = 1
    /\ effects[1].at = 0 /\ ~effects[1].cancelled
    /\ requests = {}
    /\ DOMAIN roundDataCache = {1, 3}
    /\ progress = [current |-> 2, total |-> 3]


\* the bracket of a playback time over a tick list: lower tick, upper tick
\* and the numerator of the fraction
BracketAt(tks, time) ==
    LET lower == time \div LerpDen
        upper == IF lower + 1 <= Len(tks) - 1 THEN lower + 1 ELSE Len(tks) - 1
    IN  <<tks[lower + 1], tks[upper + 1], time - lower * LerpDen>>

C22_Step ==
    /\ (Animate /\ ~isPlaying) => playbackTime' = playbackTime
    /\ Scrub => (~isPlaying' /\ playbackTime' \in 0..((Len(ticks) - 1) * LerpDen))
    /\ Rendered =>
          /\ <<frame'.tickLower, frame'.tickUpper, frame'.num>> =
                BracketAt(ticks, playbackTime')
          /\ (frame # Null /\ playbackTime' = playbackTime) => frame' = frame

\* C22: the bracket of every frame is that of the current playback time over
\* the tick list; an animation frame while paused leaves the playback time
\* unchanged; a scrub pauses and sets a playback time of the slider's range;
\* rendering again at the playback time of the frame shown, by a scrub or
\* by an animation frame, shows the same frame.
C22_Bracket == [][C22_Step]_vars

\* paused halfway between the two snapshots
C22_Witness ==
    /\ frame # Null
    /\ ~isPlaying
    /\ playbackTime = 1
    /\ frame.tickLower = 0 /\ frame.tickUpper = 1 /\ frame.num = 1
    /\ Len(frame.players) = 2


(***************************************************************************)
(* SpecRounds: the forEach of calculateMatchStats over round_freeze_end    *)
(* events and round_end events of any reason.                              *)
(***************************************************************************)
VisitRoundEndAnyReason ==
    /\ i < MaxEvents
    /\ \E e \in RoundEndEvents({"'T'", "3", "null"}, Reasons, Ticks) : Visit(e)

NextRounds == VisitRoundFreezeEnd \/ VisitRoundEndAnyReason \/ Return
SpecRounds == Init /\ [][NextRounds]_vars

C23_Step ==
    (Visited /\ cur'.event_name = "round_end"
        /\ (cur'.reason = "game_start" \/ WinnerTeam(cur'.winner) = NullTeam)) =>
        UNCHANGED <<teams, validRounds, rounds>>

\* C23: a round_end event whose reason is 'game_start', like one whose
\* winner is invalid, changes neither the team scores, nor the valid-round
\* count, nor the round history.
C23_GameStartIgnored == [][C23_Step]_vars

\* what the fold does: only an invalid winner makes it skip a round_end
C23_Step_WinnerOnly ==
    (Visited /\ cur'.event_name = "round_end") =>
        IF WinnerTeam(cur'.winner) = NullTeam
        THEN UNCHANGED <<teams, validRounds, rounds>>
        ELSE validRounds' = validRounds + 1 /\ Len(rounds') = Len(rounds) + 1

C23_InvalidWinnerIgnored == [][C23_Step_WinnerOnly]_vars

C23_GameStartCounted ==
    /\ cur.event_name = "round_end" /\ cur.reason = "game_start"
    /\ i = 1 /\ validRounds = 1
    /\ Len(rounds) = 1 /\ rounds[1].reason = "game_start"


(***************************************************************************)
(* SpecSampled: positions queries of interval 1 and 2 against recordings   *)
(* of at most MaxDemoEvents deaths, throws, grenade effects and bomb       *)
(* events.                                                                 *)
(***************************************************************************)
SampledEvents ==
    PlayerDeathEvents({"p2"}, {"p1"}, {NoId}, {1, 2})
        \cup GrenadeThrownEvents({"p1"}, {smokegrenade}, {0, 1})
        \cup DetonateEvents({"smokegrenade_detonate"}, {"p1"}, {3})
        \cup BombEvents({"bomb_planted", "bomb_dropped"}, {"p2"}, {1, 2})

SampledQuery ==
    \E start \in {0, 1}, interval \in {1, 2} :
        GetPositions(Query(RawNumber(start), RawNumber(MaxLastTick),
                           RawNumber(interval)))

InitSampled ==
    InitQuery({Readable(evs, MaxLastTick) :
                  evs \in SeqsUpTo(SampledEvents, MaxDemoEvents)})
NextSampled == SampledQuery
SpecSampled == InitSampled /\ [][NextSampled]_vars

\* the player_death events of the recording inside the requested range
DeathsInRange ==
    LET start == parseInt(req.startTick).v
        end == parseInt(req.endTick).v
        death(e) == e.event_name = "player_death" /\ InRange(e, start, end)
    IN  SelectSeq(demo.events, death)

\* C24: the kill list of a positions response holds exactly the
\* player_death events whose tick lies in [startTick, endTick], one entry
\* for each, annotated with the victim's position at the death tick, whatever
\* the sampling interval.
C24_AllKills ==
    req # Null =>
        /\ res.status = 200
        /\ Len(res.body.kills) = Len(DeathsInRange)
        /\ \A k \in 1..Len(DeathsInRange) :
              LET d == DeathsInRange[k]
                  kill == res.body.kills[k]
                  at == SampleOf(d.user_steamid, d.tick)
              IN  /\ kill.tick = d.tick /\ kill.victimSteamId = d.user_steamid
                  /\ kill.x = at.X /\ kill.y = at.Y /\ kill.z = at.Z

\* the ticks the query samples
SampledTicks ==
    LET list == TickList(parseInt(req.startTick).v, parseInt(req.endTick).v,
                         StepOf(req.interval))
    IN  {list[k] : k \in 1..Len(list)} \cap 0..demo.lastTick

\* what the handler does: a death is listed when its tick is a sampled one
C24_KillsAtSampledTicks ==
    req # Null =>
        LET sampled(d) == d.tick \in SampledTicks
            deaths == SelectSeq(DeathsInRange, sampled)
        IN  /\ Len(res.body.kills) = Len(deaths)
            /\ \A k \in 1..Len(deaths) :
                  LET at == SampleOf(deaths[k].user_steamid, deaths[k].tick)
                  IN  /\ res.body.kills[k].tick = deaths[k].tick
                      /\ res.body.kills[k].x = at.X

\* a death at tick 1 asked for with ticks 0, 2: the kill list is empty
C24_KillMissing ==
    /\ req # Null /\ req.startTick = RawNumber(0) /\ req.interval = RawNumber(2)
    /\ Len(demo.events) = 1
    /\ demo.events[1].event_name = "player_death" /\ demo.events[1].tick = 1
    /\ res.status = 200 /\ res.body.kills = <<>>

\* the sample of a player nearest at or before a tick, Null when no sampled
\* tick is at or before it
NearestAtOrBefore(steamid, tick) ==
    LET before == {t \in SampledTicks : t <= tick}
    IN  IF before = {} THEN Null
        ELSE SampleOf(steamid, CHOOSE t \in before : \A u \in before : u <= t)

\* C25: the position attached to a matched throw, a bomb_planted or a
\* bomb_dropped event is that of the acting player's nearest sampled
\* snapshot at or before the event's tick, so that with an interval above 1
\* an event between two sampled ticks gets the preceding sample's position.
C25_NearestSample ==
    req # Null =>
        /\ \A k \in 1..Len(res.body.grenades) :
              LET g == res.body.grenades[k]
              IN  g.throwTick # Null =>
                     LET at == NearestAtOrBefore(g.throwerSteamId, g.throwTick.v)
                     IN  at # Null =>
                            g.throwPos = [x |-> at.X, y |-> at.Y, z |-> at.Z]
        /\ \A k \in 1..Len(res.body.bombEvents) :
              LET b == res.body.bombEvents[k]
                  at == NearestAtOrBefore(b.user_steamid, b.tick)
              IN  at # Null =>
                     /\ "x" \in DOMAIN b
                     /\ b.x = at.X /\ b.y = at.Y /\ b.z = at.Z

\* what the handler does: a position is attached only from the sample of
\* the event's own tick
C25_ExactTickOnly ==
    req # Null =>
        /\ \A k \in 1..Len(res.body.grenades) :
              LET g == res.body.grenades[k]
              IN  g.throwTick # Null =>
                     IF g.throwTick.v \in SampledTicks
                     THEN g.throwPos.x = SampleOf(g.throwerSteamId, g.throwTick.v).X
                     ELSE g.throwPos = Null
        /\ \A k \in 1..Len(res.body.bombEvents) :
              LET b == res.body.bombEvents[k]
              IN  IF b.tick \in SampledTicks
                  THEN b.x = SampleOf(b.user_steamid, b.tick).X
                  ELSE "x" \notin DOMAIN b

\* a plant at tick 1 asked for with ticks 0, 2: it carries no position
C25_PlantUnplaced ==
    /\ req # Null /\ req.startTick = RawNumber(0) /\ req.interval = RawNumber(2)
    /\ Len(demo.events) = 1
    /\ demo.events[1].event_name = "bomb_planted" /\ demo.events[1].tick = 1
    /\ Len(res.body.bombEvents) = 1 /\ "x" \notin DOMAIN res.body.bombEvents[1]


----------------------------------------------------------------------------
(* Arrival order of the events (SpecRun) *)

\* the arrays that hold the same events as evs in another order
ArrivalOrders(evs) ==
    LET n == Len(evs)
        bijections == {f \in [1..n -> 1..n] : \A a, b \in 1..n : f[a] = f[b] => a = b}
    IN  {[k \in 1..n |-> evs[f[k]]] : f \in bijections}

\* what calculateMatchStats returns for an array
StatsOf(evs) == ReturnValue(FoldEvents(InitialFoldState, SortByTick(evs)))

\* C26: the statistics depend only on the set of events: any two arrival
\* orders of the same events, events of the same tick included, give the
\* same scores, round history and player counters.
C26_OrderIndependent ==
    pc = "done" => \A other \in ArrivalOrders(input) : StatsOf(other) = result

\* what the sort guarantees: events of different ticks are folded in tick
\* order, so arrays without two events of one tick give the same result
C26_DistinctTicks ==
    (pc = "done" /\ \A a, b \in 1..Len(input) :
                        input[a].tick = input[b].tick => a = b) =>
        \A other \in ArrivalOrders(input) : StatsOf(other) = result

\* events of one tick are folded in arrival order
C26_StableSort ==
    pc = "done" =>
        /\ TickSorted(events)
        /\ \A t \in Ticks :
              LET atTick(e) == e.tick = t
              IN  SelectSeq(events, atTick) = SelectSeq(input, atTick)

\* two side assignments of one player on one tick: the later arrival is
\* the player's side, the earlier one the starting side
C26_SameTickSides ==
    /\ pc = "done" /\ Len(input) = 2
    /\ input[1].event_name = "player_team" /\ input[2].event_name = "player_team"
    /\ input[1].tick = input[2].tick
    /\ input[1].user_steamid = input[2].user_steamid
    /\ result.players[1].startingTeam = input[1].team
    /\ StatsOf(<<input[2], input[1]>>).players[1].startingTeam = input[2].team
    /\ input[1].team # input[2].team

\* a hit on the tick of the side assignments: counted only when it arrives
\* before the victim's side is known
C26_SameTickHit ==
    /\ pc = "done" /\ Len(input) = 3
    /\ \A k \in 1..3 : input[k].tick = 0
    /\ input[3].event_name = "player_hurt"
    /\ \E k \in 1..Len(result.players) :
          result.players[k].steamid = "p1" /\ result.players[k].damage = 0
    /\ \E other \in ArrivalOrders(input) :
          \E k \in 1..Len(StatsOf(other).players) :
             /\ StatsOf(other).players[k].steamid = "p1"
             /\ StatsOf(other).players[k].damage = 1


(***************************************************************************)
(* SpecTickLoop: the positions handler taken one iteration of its loop     *)
(*     for (let i = start; i <= end; i += step) ticks.push(i)              *)
(* at a time.  In this specification i is the loop variable and ticks the  *)
(* array the loop fills; pc is "idle" between requests, "loop" inside the  *)
(* loop, "built" behind it and "aborted" when the process ran out of       *)
(* memory.                                                                 *)
(***************************************************************************)
\* the longest array the process can hold; every list of a range within
\* -1..MaxLastTick fits
ListCapacity == MaxLastTick + 3

LoopTicks == {RawNumber(t) : t \in (-1)..MaxLastTick}
LoopIntervals == RawIntervals \cup {RawText}

loopRest == <<foldVars, cur, result, runVars, swapVars, demo, cacheVars, positions,
              bombEvents, playbackTime, isPlaying, frame, loading, ghostVars>>

\* the handler up to the loop: parseInt, || 1, the isNaN test, let i = start
ReceiveQuery ==
    /\ pc = "idle"
    /\ \E s \in LoopTicks \cup {RawText}, e \in LoopTicks, n \in LoopIntervals :
          /\ req' = Query(s, e, n)
          /\ IF isNaN(parseInt(s)) \/ isNaN(parseInt(e))
             THEN /\ res' = [status |-> 400, body |-> [error |-> "Invalid tick range"]]
                  /\ UNCHANGED <<i, pc>>
             ELSE /\ res' = Null
                  /\ i' = parseInt(s).v
                  /\ pc' = "loop"
    /\ ticks' = <<>>
    /\ calls' = <<>>
    /\ UNCHANGED loopRest

\* one iteration: i <= end, ticks.push(i), i += step
PushTick ==
    /\ pc = "loop"
    /\ i <= parseInt(req.endTick).v
    /\ Len(ticks) < ListCapacity
    /\ ticks' = Append(ticks, i)
    /\ i' = i + StepOf(req.interval)
    /\ UNCHANGED <<pc, req, res, calls, loopRest>>

\* the loop test fails: i > end
ExitLoop ==
    /\ pc = "loop"
    /\ i > parseInt(req.endTick).v
    /\ pc' = "built"
    /\ UNCHANGED <<i, ticks, req, res, calls, loopRest>>

\* ticks.push(i) on an array that cannot grow: the process dies
OutOfMemory ==
    /\ pc = "loop"
    /\ i <= parseInt(req.endTick).v
    /\ Len(ticks) = ListCapacity
    /\ pc' = "aborted"
    /\ UNCHANGED <<i, ticks, req, res, calls, loopRest>>

\* the rest of the handler: the decoder calls and the response
SendResponse ==
    /\ pc = "built"
    /\ LET r == Positions(demo, req)
       IN  /\ res' = [status |-> r.status, body |-> r.body]
           /\ calls' = r.calls
    /\ pc' = "idle"
    /\ UNCHANGED <<i, ticks, req, loopRest>>

InitTickLoop == InitQuery({Readable(<<>>, MaxLastTick)})
NextTickLoop == ReceiveQuery \/ PushTick \/ ExitLoop \/ OutOfMemory \/ SendResponse
SpecTickLoop == InitTickLoop /\ [][NextTickLoop]_vars
\* the handler is synchronous: once entered it runs on
SpecTickLoopFair ==
    SpecTickLoop /\ WF_vars(PushTick \/ ExitLoop \/ OutOfMemory \/ SendResponse)

\* start, start + step, ... <= end
ClaimedTicks ==
    LET start == parseInt(req.startTick).v
        end == parseInt(req.endTick).v
        step == StepOf(req.interval)
    IN  IF start > end THEN <<>>
        ELSE [k \in 1..Cardinality({t \in start..end : (t - start) % step = 0}) |->
                 start + (k - 1) * step]

C27_StepIsIntervalOrOne ==
    req # Null =>
        LET n == parseInt(req.interval)
        IN  StepOf(req.interval) = IF isNaN(n) \/ n.v = 0 THEN 1 ELSE n.v

\* C27: building the tick list terminates for every integer startTick,
\* endTick and interval, a negative interval included, and yields
\* startTick, startTick + step, ... <= endTick, where step is the interval,
\* or 1 when the interval is missing, zero or not numeric.
C27_TickListBuilt ==
    /\ [](pc = "loop" => <>(pc = "built"))
    /\ [](pc = "built" => ticks = ClaimedTicks)
    /\ []C27_StepIsIntervalOrOne

\* what the loop guarantees: with a step above zero it ends with the list
C27_PositiveStep ==
    /\ []((pc = "loop" /\ StepOf(req.interval) > 0) => <>(pc = "built"))
    /\ [](pc = "built" =>
             /\ ticks = ClaimedTicks
             /\ ticks = TickList(parseInt(req.startTick).v, parseInt(req.endTick).v,
                                 StepOf(req.interval)))

\* interval -1 with start <= end: the list grew until the process died
C27_Runaway ==
    /\ pc = "aborted"
    /\ req = Query(RawNumber(0), RawNumber(1), RawNumber(-1))
    /\ ticks = [k \in 1..ListCapacity |-> 1 - k]
    /\ res = Null


(***************************************************************************)
(* SpecPlayback: rounds of none, one or several samples are loaded into    *)
(* RoundVisualizer, played, paused, scrubbed and animated.                 *)
(***************************************************************************)
\* a round whose range starts behind the last sample loads no tick
PlaybackLoad == \E startTick \in 0..MaxLastTick : LoadRound(startTick, MaxLastTick)

InitPlayback == InitQuery({Readable(<<>>, last) : last \in {0, 1, MaxLastTick}})
NextPlayback == PlaybackLoad \/ LoadFailed \/ TogglePlay \/ Scrub \/ Animate
SpecPlayback == InitPlayback /\ [][NextPlayback]_vars

\* Math.floor(playbackTimeRef.current / TICK_INTERVAL)
LowerIndex == playbackTime \div LerpDen

C28_Time ==
    /\ playbackTime >= 0
    /\ playbackTime <= Max(MaxTime, 0)
    /\ LowerIndex >= 0
    /\ LowerIndex <= Max(Len(ticks) - 1, 0)

\* the indices of a frame that is drawn
C28_Step ==
    Rendered =>
        \E lower \in 0..(Len(ticks) - 1) :
            /\ lower = playbackTime' \div LerpDen
            /\ frame'.tickLower = ticks[lower + 1]
            /\ frame'.tickUpper = ticks[Min(lower + 1, Len(ticks) - 1) + 1]

\* C28: after any sequence of load, play, pause, scrub and animation-frame
\* steps the playback time lies in [0, (n - 1) * tickInterval], n being the
\* number of loaded samples (n = 0 and n = 1 included, where it is 0); the
\* lower index is never negative nor past the last sample, and the upper
\* index is min(lower + 1, n - 1).
C28_TimeInRange == []C28_Time /\ [][C28_Step]_vars

\* what the code guarantees: the same whenever at least one sample is loaded
C28_LoadedInRange == [](ticks # <<>> => C28_Time) /\ [][C28_Step]_vars

\* play pressed with no sample loaded: the next frame sets the time to
\* (0 - 1) * TICK_INTERVAL
C28_NegativeTime ==
    /\ ~loading /\ ticks = <<>> /\ ~isPlaying
    /\ playbackTime = -LerpDen
    /\ LowerIndex = -1


(***************************************************************************)
(* SpecPlaybackFair: as SpecPlayback, but once playback is started nothing *)
(* pauses, scrubs or changes the round, and animation frames keep          *)
(* arriving: animate itself requests the next frame                        *)
(* (requestAnimationFrame(animate)).                                       *)
(***************************************************************************)
StartPlayback == ~isPlaying /\ TogglePlay
ScrubAtRest == ~isPlaying /\ Scrub
LoadAtRest == ~isPlaying /\ PlaybackLoad

NextPlaybackFair == LoadAtRest \/ LoadFailed \/ StartPlayback \/ ScrubAtRest \/ Animate
SpecPlaybackFair ==
    InitPlayback /\ [][NextPlaybackFair]_vars /\ WF_vars(Animate)

C29_ReachesEnd == isPlaying ~> (~isPlaying /\ playbackTime = MaxTime)
C29_Stop == Animate => (~isPlaying' <=> (isPlaying => playbackTime' = MaxTime))
C29_Monotonic == isPlaying => playbackTime' >= playbackTime

\* C29: when playback is started and animation frames keep arriving with a
\* positive elapsed time, with no pause, scrub or round change, the playback
\* time eventually reaches the end, where it is clamped to exactly
\* (n - 1) * tickInterval and isPlaying becomes false; the playback time
\* never decreases while playing.
C29_PlaysToEnd ==
    /\ C29_ReachesEnd
    /\ [][C29_Stop]_vars
    /\ [][C29_Monotonic]_vars

\* what the code guarantees: the same for a round of at least one sample
C29_LoadedPlaysToEnd ==
    /\ C29_ReachesEnd
    /\ [][C29_Stop]_vars
    /\ [][ticks # <<>> => C29_Monotonic]_vars

\* played to the end of a round of several samples
C29_AtEnd ==
    /\ Len(ticks) = MaxLastTick + 1 /\ ~isPlaying /\ ~loading
    /\ playbackTime = MaxTime /\ frame # Null
    /\ frame.tickLower = ticks[Len(ticks)] /\ frame.tickUpper = ticks[Len(ticks)]


----------------------------------------------------------------------------
(* The tick range of the round records (SpecRounds) *)

\* a round record is pushed with the tick of the round_freeze_end folded
\* last (0 when none was) as startTick and the round_end's tick as endTick
C30_Step ==
    (Visited /\ Len(rounds') = Len(rounds) + 1) =>
        LET r == rounds'[Len(rounds')]
        IN  /\ r.startTick = lastRoundStartTick
            /\ r.endTick = cur'.tick
            /\ rounds' = Append(rounds, r)
C30_FreezeEnd ==
    (Visited /\ cur'.event_name = "round_freeze_end") =>
        lastRoundStartTick' = cur'.tick

C30_StartBeforeEnd ==
    \A k \in 1..Len(rounds) : rounds[k].startTick <= rounds[k].endTick
C30_EndTicksAscend ==
    \A k \in 2..Len(rounds) : rounds[k - 1].endTick <= rounds[k].endTick
C30_NoOverlap ==
    \A k \in 2..Len(rounds) : rounds[k].startTick > rounds[k - 1].endTick

\* C30: every round record has startTick <= endTick, startTick being the
\* tick of the latest round_freeze_end at or before the round_end (0 when
\* there is none) and endTick the round_end's tick; the records are listed
\* in non-decreasing endTick order, and each record's startTick is greater
\* than the previous record's endTick (rounds do not overlap).
C30_RoundRanges ==
    /\ [](C30_StartBeforeEnd /\ C30_EndTicksAscend /\ C30_NoOverlap)
    /\ [][C30_Step /\ C30_FreezeEnd]_vars

\* what the fold guarantees: everything but the gap between two rounds
C30_RangesOrdered ==
    /\ [](C30_StartBeforeEnd /\ C30_EndTicksAscend)
    /\ [][C30_Step /\ C30_FreezeEnd]_vars

\* two round_end events with no round_freeze_end between them: the second
\* record starts where the first one did
C30_SharedStart ==
    /\ Len(rounds) = 2 /\ i = 3
    /\ rounds[1].startTick = 0 /\ rounds[1].endTick = 0
    /\ rounds[2].startTick = 0 /\ rounds[2].endTick = 1

====
